---- MODULE Spec2Model ----
(***************************************************************************)
(* A model of extrainterpreters: the cross-interpreter locks (lock.py),    *)
(* the shared buffer life cycle (remote_array.py) and the queue built on   *)
(* the lockable board and the signal pipe (memoryboard.py, queue.py).      *)
(*                                                                         *)
(* Interpreters run in parallel and share only bytes: every access to a    *)
(* shared byte is a step of its own.  Threads of one interpreter are       *)
(* serialised by that interpreter's instruction lock and can be switched   *)
(* where the evaluation loop looks at its breaker: on entry to a Python    *)
(* function and after a call into C returns.  The code between two such    *)
(* points is one step.                                                     *)
(***************************************************************************)
EXTENDS Integers, Sequences, FiniteSets, TLC

(***************************************************************************)
(* Bounds of the model.                                                    *)
(***************************************************************************)
\* operations each thread issues on the lock
MaxOps == 2
\* slots of the board (LockableBoardParent.maxblocks of them in the program)
NSlots == 2
\* calls of Queue.put by the origin
MaxPuts == 3
\* calls of Queue.get by each consumer
MaxGets == 3
\* picklings of the remote array by the origin
MaxPickles == 2
\* copies of the remote array unpickled in other interpreters
MaxCopies == 1
\* calls the origin makes on its remote array
MaxOriginCalls == 4
\* calls of start and close on each copy
MaxCopyCalls == 2
\* reads and writes of the data of the remote array, over all instances
MaxAccesses == 2
\* interpreters that use the pipe; the first one created it
NInterps == 3
\* pipe objects built over all interpreters, the first one by _SimplexPipe()
MaxPipeObjects == 5
\* calls of close on the pipe objects, over all interpreters
MaxCloses == 4
\* calls of collect and del the origin makes on the board, and the puts and
\* the gets of each consumer that go with them
MaxBoardCalls == 1
MaxBoardPuts == 2
MaxBoardGets == 2
\* interpreters besides the origin that post on the board of several producers
MaxChildren == 1
\* calls of new_item, fetch_item and collect by each of these interpreters
MaxOwnedOps == 3
\* calls of start on the worker
MaxStarts == 2
\* calls of run and run_in_thread on the worker
MaxCalls == 2
\* calls of close on the worker
MaxWorkerCloses == 2
\* file descriptors registered with the selector
NFds == 2
\* calls of select, nested ones included
MaxSelects == 2
\* rounds with events in one call of select
MaxRounds == 2
\* the largest timeout passed to select, in rounds of its loop
MaxTimeout == 1
\* select(timeout=None) and select(target_fd=None)
NoTimeout == -1
NoFd == 0

(***************************************************************************)
(* LOCKS  (src/src/extrainterpreters/lock.py)                              *)
(***************************************************************************)
VARIABLES
    lockByte,   \* the shared byte at _lock_address (0 free, 1 taken)
    entered,    \* _CrossInterpreterStructLock._entered of each view
    kind,       \* the class of the lock object: "Lock", "RLock", "IntRLock"
    viewOf,     \* the view (one per interpreter) each thread works through
    menu,       \* the (blocking, timeout) arguments the threads pass to acquire
    th          \* per thread: call stack, arguments, locals, last result

lockVars == <<lockByte, entered, kind, viewOf, menu, th>>

(***************************************************************************)
(* QUEUE  (src/src/extrainterpreters/queue.py, memoryboard.py)             *)
(***************************************************************************)
VARIABLES
    slotState,      \* BlockLock.state of each slot of the board
    slotLock,       \* BlockLock.lock of each slot
    contentAddress, \* BlockLock.content_address: the payload the slot points to
    blocks,         \* the origin's map from slot to the payload it keeps alive
    signalPipe,     \* unread bytes in the queue's signal pipe
    queueSize,      \* Queue.size, the maxlen of every consumer's deque
    producer,       \* the origin's thread inside Queue.put
    consumer,       \* per consuming interpreter: its position inside Queue.get
    delivered       \* per consumer: the values its get calls have returned

queueVars == <<slotState, slotLock, contentAddress, blocks, signalPipe,
               queueSize, producer, consumer, delivered>>

(***************************************************************************)
(* REMOTE ARRAY  (src/src/extrainterpreters/remote_array.py)               *)
(***************************************************************************)
VARIABLES
    raState,      \* RemoteHeader.state of the buffer
    enterCount,   \* RemoteHeader.enter_count
    exitCount,    \* RemoteHeader.exit_count
    raAlive,      \* the buffer's memory is still kept by _anchor somewhere
    origin,       \* the origin's instance: _data_state, calls made so far
    limbo,        \* the origin's zombie copy is in _array_registry
    pickles,      \* picklings so far; the last one set the origin's _timestamp
    expired,      \* picklings whose time-to-live has run out (the oldest ones)
    copies,       \* the unpickled instances: _timestamp, _data, _data_state
    closing,      \* who is between the locked section of close and its end
    raLock,       \* RemoteHeader.lock: who holds the header lock, in which call
    raLast,       \* the last call that ended: who, which call, its outcome
    useAfterFree  \* some call has touched the memory after it was released

raVars == <<raState, enterCount, exitCount, raAlive, origin, limbo, pickles,
            expired, copies, closing, raLock, raLast, useAfterFree>>

\* the data of the remote array (remote_array.py:177-198, 254-267)
VARIABLES
    payload,      \* the byte of the data the instances read and write
    accesses      \* reads and writes called so far

accVars == <<payload, accesses>>

(***************************************************************************)
(* PIPE  (src/src/extrainterpreters/queue.py, resources.py)                *)
(***************************************************************************)
VARIABLES
    pipes,        \* the _SimplexPipe objects built so far, in any interpreter
    registry,     \* per interpreter: the object PIPE_REGISTRY has for the fds
    counter,      \* ActiveInstance.counter, shared by all the objects
    fdsOpen,      \* the file descriptors of the pipe are open
    pipeLock,     \* the interpreter that holds the lock of _lock_array, or 0
    ip,           \* per interpreter: its position inside unpickling or close
    closeCalls,   \* calls of close so far
    pipeLast      \* the last call that ended: who, which call, outcome, object

pipeVars == <<pipes, registry, counter, fdsOpen, pipeLock, ip, closeCalls,
             pipeLast>>

(***************************************************************************)
(* BOARD OF SEVERAL PRODUCERS  (LockableBoard, called by queue.py:496-499   *)
(* and by tests/test_boards.py; its code is not in this source tree)       *)
(***************************************************************************)
VARIABLES
    obSlot,       \* per slot: state, lock, owner, and the value it points to
    obLive,       \* the interpreters that are alive
    obAnchors,    \* the values whose payload is kept alive by its poster
    obProc,       \* per interpreter: its position inside a call on the board
    obFreed       \* some fetch has read a payload that was released

ownedVars == <<obSlot, obLive, obAnchors, obProc, obFreed>>

(***************************************************************************)
(* WORKER  (base_interpreter.py, simple_interpreter.py)                    *)
(***************************************************************************)
VARIABLES
    worker,       \* the fields of the interpreter object
    running_interpreters,  \* the ids the registry of workers lists
    interpreterList,       \* the ids in the runtime's list of interpreters
    retFlag,      \* what the first byte of the return region stands for
    exec,         \* the call of execute under way, and who runs it
    caller,       \* the position of the calling thread, and its last outcome
    wlog          \* what the calls did: history for the properties

workerVars == <<worker, running_interpreters, interpreterList, retFlag,
               exec, caller, wlog>>

(***************************************************************************)
(* QUEUE OVER THE BOARD OF SEVERAL PRODUCERS  (queue.py: Queue.put,        *)
(* Queue.get and Queue._fetch over new_item and fetch_item)                *)
(***************************************************************************)
VARIABLES
    oqPipe,       \* unread bytes in the signal pipe of the queue
    oqCall        \* per interpreter: its call of put or get, and the outcome

oqVars == <<oqPipe, oqCall>>

(***************************************************************************)
(* SELECTOR  (src/src/extrainterpreters/resources.py)                      *)
(***************************************************************************)
VARIABLES
    select_depth,       \* EISelector.select_depth
    entered_callbacks,  \* EISelector.entered_callbacks
    frames,             \* the calls of select under way, innermost last
    selCalls,           \* calls of select made so far
    selLast             \* the call of select that returned last

selVars == <<select_depth, entered_callbacks, frames, selCalls, selLast>>

vars == <<lockVars, queueVars, raVars, accVars, pipeVars, ownedVars,
          workerVars, oqVars, selVars>>

\* what the operations of each part leave alone
notLock == <<queueVars, raVars, accVars, pipeVars, ownedVars,
    workerVars, oqVars, selVars>>
notQueue == <<lockVars, raVars, accVars, pipeVars, ownedVars,
    workerVars, oqVars, selVars>>
notRA == <<lockVars, queueVars, accVars, pipeVars, ownedVars,
    workerVars, oqVars, selVars>>
notAccess == <<lockVars, queueVars, pipeVars, ownedVars,
    workerVars, oqVars, selVars>>
notPipe == <<lockVars, queueVars, raVars, accVars, ownedVars,
    workerVars, oqVars, selVars>>
notOwned == <<lockVars, queueVars, raVars, accVars, pipeVars, workerVars, oqVars, selVars>>
notWorker == <<lockVars, queueVars, raVars, accVars, pipeVars, ownedVars,
    oqVars, selVars>>
notOwnedQueue == <<lockVars, queueVars, raVars, accVars, pipeVars,
    workerVars, selVars>>
notSelector == <<lockVars, queueVars, raVars, accVars, pipeVars, ownedVars,
    workerVars, oqVars>>

Threads == DOMAIN viewOf
Views == 1..2
Kinds == {"Lock", "RLock", "IntRLock"}
\* timeout arguments: -1 (wait forever), 0, and 1 standing for any positive one
Timeouts == {-1, 0, 1}
\* which threads share an interpreter (and with it the unpickled lock object):
\* two interpreters with a thread each, or two threads of one interpreter
Topologies == {<<1, 2>>, <<1, 1>>}

\* TIMEOUT_MAX stands for "never expires"
TIMEOUT_MAX == -1

IdleThread ==
    [stk |-> <<>>, op |-> "none", blocking |-> TRUE, timeout |-> -1,
     slt |-> 0, first |-> TRUE, res |-> "none", held |-> 0, was |-> 0,
     nops |-> 0]

\* the operation of thread record r ends with result x
Done(r, x) ==
    [r EXCEPT !.stk = <<>>, !.res = x,
              !.held = IF r.op = "acquire" /\ x = "True" THEN @ + 1 ELSE @]

\* lock.py:224-225 and 208: time.sleep(self._delay); retry = False; loop test
LockSleep(r) == [r EXCEPT !.stk = <<"L3">>, !.first = FALSE]

(***************************************************************************)
(* Ret(r, rv, ent): the callee on top of r.stk has been popped and returns *)
(* rv (or raises it) into the continuation now on top; ent is _entered of  *)
(* the thread's view at that moment.  The caller runs on, in the same      *)
(* step, until its next call or until the operation ends.                  *)
(***************************************************************************)
RECURSIVE Ret(_, _, _)
Ret(r, rv, ent) ==
    LET top == Head(r.stk)
        rest == Tail(r.stk)
        below == [r EXCEPT !.stk = rest]
    IN
    CASE top = "K1" ->
            \* IntRLock.locked, lock.py:174-178
            IF rv = "ResourceBusy"
            THEN Ret(below, "True", ent)
            ELSE [r EXCEPT !.stk = <<"R1", "K2">> \o rest]
      [] top = "K2" ->
            \* lock.py:179
            Ret(below, "False", ent)
      [] top = "L1" ->
            \* Lock.acquire, lock.py:202-203: locked() is called a second time
            [r EXCEPT !.stk = <<"K0", "L2">> \o rest]
      [] top = "L2" ->
            \* lock.py:203-208
            IF rv = "True" /\ ~r.blocking
            THEN Done(r, "False")
            ELSE [r EXCEPT !.stk = <<"L3">>, !.first = TRUE]
      [] top = "L4" ->
            \* lock.py:209-213
            IF rv = "True"
            THEN LockSleep(r)
            ELSE [r EXCEPT !.stk = <<"A1", "L5">>, !.slt = 0]
      [] top = "L5" ->
            \* lock.py:214-225
            IF ent > 1
            THEN [r EXCEPT !.stk = <<"R1", "L6">>]
            ELSE IF rv = "ResourceBusy" THEN LockSleep(r) ELSE Done(r, "True")
      [] top = "L6" ->
            \* lock.py:219-225: retry is True
            LockSleep(r)
      [] top = "I1" ->
            \* IntRLock.acquire, lock.py:148-151: an exception propagates
            Done(r, IF rv = "ok" THEN "True" ELSE rv)
      [] top = "I2" ->
            \* lock.py:153-157
            Done(r, IF rv = "ResourceBusy" THEN "False" ELSE "True")
      [] OTHER ->
            \* "U": the caller is the user's code
            Done(r, IF r.op = "locked" THEN rv ELSE "None")

Top(t) == IF th[t].stk = <<>> THEN "idle" ELSE Head(th[t].stk)
Pop(t) == [th[t] EXCEPT !.stk = Tail(@)]
Goto(t, label) == [th[t] EXCEPT !.stk = <<label>> \o Tail(@)]

\* _atomic_byte_lock: compare-and-swap of the byte from 0 to 1
AtomicByteLock(byte) == IF byte = 0 THEN 1 ELSE byte

\* an acquire through a view that holds the lock, not counted
ReenterUncounted(n) == n

\* _CrossInterpreterStructLock.acquire, lock.py:77-79
Reenter(n) == n + 1

\* _CrossInterpreterStructLock.release, lock.py:98-102: the count after the
\* call's first part, and whether the byte is to be cleared
ReleaseCount(n) == IF n = 0 THEN 0 ELSE n - 1

\* release without its first test (lock.py:98-99)
ReleaseClearsUnheld(n) == n <= 1

ReleaseClears(n) == n = 1

----
\* IntRLock.locked, lock.py:172-175, run by thread t whose record is r
DoLocked(t, r) ==
    /\ th' = [th EXCEPT ![t] =
          IF entered[viewOf[t]] > 0
          THEN Ret([r EXCEPT !.stk = Tail(@)], "True", entered[viewOf[t]])
          ELSE [r EXCEPT !.stk = <<"A1", "K1">> \o Tail(@), !.slt = 0]]
    /\ UNCHANGED <<lockByte, entered, kind, viewOf, menu, notLock>>

\* _CrossInterpreterStructLock.acquire, lock.py:77-80
DoAcquireEnter(t, r) ==
    /\ LET v == viewOf[t] IN
       IF entered[v] > 0
       THEN /\ entered' = [entered EXCEPT ![v] = Reenter(@)]
            /\ th' = [th EXCEPT ![t] =
                  Ret([r EXCEPT !.stk = Tail(@)], "ok", Reenter(entered[v]))]
       ELSE /\ th' = [th EXCEPT ![t] = [r EXCEPT !.stk = <<"CAS">> \o Tail(@)]]
            /\ UNCHANGED entered
    /\ UNCHANGED <<lockByte, kind, viewOf, menu, notLock>>

\* _CrossInterpreterStructLock.release, lock.py:98-103
DoRelease(t, r) ==
    /\ LET v == viewOf[t]
           n == entered[v]
       IN /\ entered' = [entered EXCEPT ![v] = ReleaseCount(n)]
          /\ th' = [th EXCEPT ![t] =
                IF ReleaseClears(n) THEN [r EXCEPT !.stk = <<"R2">> \o Tail(@)]
                ELSE Ret([r EXCEPT !.stk = Tail(@)], "None", ReleaseCount(n))]
    /\ UNCHANGED <<lockByte, kind, viewOf, menu, notLock>>

(***************************************************************************)
(* The calls of the user's code.  A call and the first piece of code it    *)
(* reaches are one step: the function entries before it touch no state.    *)
(***************************************************************************)
\* the thread's record as a call of operation o begins
Call(t, o, b, m) ==
    [th[t] EXCEPT !.op = o, !.blocking = b, !.timeout = m, !.res = "none",
                  !.nops = @ + 1, !.first = TRUE, !.was = th[t].held]

\* lock.acquire(blocking, timeout)
StartAcquire(t) ==
    /\ Top(t) = "idle"
    /\ th[t].nops < MaxOps
    /\ \E a \in menu :
         LET b == a[1]
             m == a[2]
             r == Call(t, "acquire", b, m)
         IN IF kind = "Lock"
            THEN \* Lock.acquire, lock.py:202
                 DoLocked(t, [r EXCEPT !.stk = <<"K0", "L1">>])
            ELSE \* IntRLock.acquire, lock.py:148-154
                 IF b
                 THEN DoAcquireEnter(t, [r EXCEPT !.stk = <<"A1", "I1">>,
                                 !.slt = IF m = -1 THEN TIMEOUT_MAX ELSE m])
                 ELSE DoAcquireEnter(t, [r EXCEPT !.stk = <<"A1", "I2">>,
                                                  !.slt = 0])

\* lock.release(): IntRLock.release, lock.py:159-160.  A thread releases
\* what it holds, or calls release on a view that holds nothing.
StartRelease(t) ==
    /\ Top(t) = "idle"
    /\ th[t].nops < MaxOps
    /\ th[t].held > 0 \/ entered[viewOf[t]] = 0
    /\ DoRelease(t, [Call(t, "release", TRUE, -1) EXCEPT
                        !.held = IF @ > 0 THEN @ - 1 ELSE 0,
                        !.stk = <<"R1", "U">>])

\* lock.locked()
StartLocked(t) ==
    /\ Top(t) = "idle"
    /\ th[t].nops < MaxOps
    /\ DoLocked(t, [Call(t, "locked", TRUE, -1) EXCEPT !.stk = <<"K0", "U">>])

(***************************************************************************)
(* The steps of a thread inside a call.                                    *)
(***************************************************************************)
StepLocked(t) == Top(t) = "K0" /\ DoLocked(t, th[t])

StepAcquireEnter(t) == Top(t) = "A1" /\ DoAcquireEnter(t, th[t])

StepRelease(t) == Top(t) = "R1" /\ DoRelease(t, th[t])

\* lock.py:81 and 86: the compare-and-swap itself
StepAtomicByteLock(t) ==
    /\ Top(t) = "CAS"
    /\ lockByte' = AtomicByteLock(lockByte)
    /\ th' = [th EXCEPT ![t] =
          IF lockByte = 0 THEN Goto(t, "A3")
          ELSE IF th[t].slt = 0 THEN Goto(t, "Afail") ELSE Goto(t, "Await")]
    /\ UNCHANGED <<entered, kind, viewOf, menu, notLock>>

\* lock.py:91-92
StepAcquired(t) ==
    /\ Top(t) = "A3"
    /\ LET v == viewOf[t] IN
       /\ entered' = [entered EXCEPT ![v] = @ + 1]
       /\ th' = [th EXCEPT ![t] = Ret(Pop(t), "ok", entered[v] + 1)]
    /\ UNCHANGED <<lockByte, kind, viewOf, menu, notLock>>

\* lock.py:82
StepBusy(t) ==
    /\ Top(t) = "Afail"
    /\ th' = [th EXCEPT ![t] = Ret(Pop(t), "ResourceBusy", entered[viewOf[t]])]
    /\ UNCHANGED <<lockByte, entered, kind, viewOf, menu, notLock>>

\* lock.py:85-90: after the sleep the deadline has passed or it has not; a
\* deadline of TIMEOUT_MAX never passes
StepWait(t) ==
    /\ Top(t) = "Await"
    /\ \/ th' = [th EXCEPT ![t] = Goto(t, "CAS")]
       \/ /\ th[t].slt # TIMEOUT_MAX
          /\ th' = [th EXCEPT ![t] = Ret(Pop(t), "Timeout", entered[viewOf[t]])]
    /\ UNCHANGED <<lockByte, entered, kind, viewOf, menu, notLock>>

\* lock.py:103-107
StepReleaseByte(t) ==
    /\ Top(t) = "R2"
    /\ lockByte' = 0
    /\ entered' = [entered EXCEPT ![viewOf[t]] = 0]
    /\ th' = [th EXCEPT ![t] = Ret(Pop(t), "None", 0)]
    /\ UNCHANGED <<kind, viewOf, menu, notLock>>

\* Lock.acquire, lock.py:208-209 and 227: the test of the while loop
StepLockLoop(t) ==
    /\ Top(t) = "L3"
    /\ LET r == th[t]
           goOn == [r EXCEPT !.stk = <<"K0", "L4">>]
           giveUp == Done(r, "ResourceBusy")
       IN \/ /\ r.timeout = -1 \/ (r.timeout = 1 /\ r.first)
             /\ th' = [th EXCEPT ![t] = goOn]
          \/ /\ r.timeout = 1 /\ ~r.first
             /\ \/ th' = [th EXCEPT ![t] = goOn]
                \/ th' = [th EXCEPT ![t] = giveUp]
          \/ /\ r.timeout = 0
             /\ th' = [th EXCEPT ![t] = giveUp]
    /\ UNCHANGED <<lockByte, entered, kind, viewOf, menu, notLock>>

(***************************************************************************)
(* QUEUE: the board of slots (memoryboard.py), the signal pipe and         *)
(* Queue.put / Queue.get (queue.py).  The origin interpreter posts; every  *)
(* consumer is an interpreter of its own holding an unpickled copy of the  *)
(* queue.  They share the bytes of the board and the pipe, so every access *)
(* to a slot byte or to the pipe is a step.  Values are numbered in the    *)
(* order of the puts; 0 stands for "no value".                             *)
(***************************************************************************)
Slots == 0 .. (NSlots - 1)
Consumers == DOMAIN consumer

\* Queue.size is None: the deques have no maxlen (queue.py:449 and 483)
NoMaxLen == -1

\* Queue(size=None), the default, and Queue(size=0)
QueueSizes == {NoMaxLen, 0}

\* class State, memoryboard.py:409-415
NOT_INITIALIZED == 0
BUILDING == 1
READY == 2
LOCKED == 3
GARBAGE == 5

IdleProducer ==
    [pc |-> "idle", item |-> 0, offset |-> 0, nput |-> 0, res |-> "none",
     posted |-> {}, free |-> 0, calls |-> 0]

IdleConsumer ==
    [pc |-> "idle", block |-> FALSE, index |-> 0, obj |-> 0, data |-> <<>>,
     res |-> "none", val |-> 0, ngets |-> 0]

\* the payload of value v is alive while the origin's map holds it
Anchored(v) == \E o \in Slots : blocks[o] = v

\* deque(maxlen=size).append, queue.py:483 and 508
DequeAppend(d, x, maxlen) ==
    IF maxlen = NoMaxLen THEN Append(d, x)
    ELSE IF maxlen = 0 THEN <<>>
    ELSE IF Len(d) < maxlen THEN Append(d, x)
    ELSE Append(Tail(d), x)

----
\* get_free_block, memoryboard.py:492 and 505-506: on to the next slot, or
\* the board is full and new_item raises
NextBlock(p) ==
    IF p.offset + 1 < NSlots
    THEN [p EXCEPT !.offset = @ + 1, !.pc = "scan"]
    ELSE [p EXCEPT !.pc = "idle", !.res = "BoardFull"]

\* get_free_block, memoryboard.py:493 and 496: the state and lock bytes of the
\* slot are looked at
DoPutScan(p) ==
    /\ producer' =
          IF slotState[p.offset] = GARBAGE THEN [p EXCEPT !.pc = "reclaim"]
          ELSE IF slotState[p.offset] = NOT_INITIALIZED /\ slotLock[p.offset] = 0
               THEN [p EXCEPT !.pc = "cas"]
               ELSE NextBlock(p)
    /\ UNCHANGED <<slotState, slotLock, contentAddress, blocks, signalPipe,
                   queueSize, consumer, delivered, notQueue>>

\* Queue.put, queue.py:534-537, new_item, memoryboard.py:448-449
StartPut ==
    /\ producer.pc = "idle"
    /\ producer.nput < MaxPuts
    /\ DoPutScan([producer EXCEPT !.item = producer.nput + 1, !.offset = 0,
                                  !.nput = @ + 1, !.res = "none"])

PutScan == producer.pc = "scan" /\ DoPutScan(producer)

\* get_free_block, memoryboard.py:494-495: a garbage slot is taken back
PutReclaim ==
    /\ producer.pc = "reclaim"
    /\ LET o == producer.offset IN
       IF blocks[o] = 0
       THEN /\ producer' = [producer EXCEPT !.pc = "idle", !.res = "KeyError"]
            /\ UNCHANGED <<slotState, slotLock, blocks>>
       ELSE /\ blocks' = [blocks EXCEPT ![o] = 0]
            /\ slotState' = [slotState EXCEPT ![o] = NOT_INITIALIZED]
            /\ slotLock' = [slotLock EXCEPT ![o] = 0]
            /\ producer' = [producer EXCEPT !.pc = "check"]
    /\ UNCHANGED <<contentAddress, signalPipe, queueSize, consumer, delivered,
                   notQueue>>

\* get_free_block, memoryboard.py:496, after a slot was taken back
PutCheck ==
    /\ producer.pc = "check"
    /\ producer' =
          IF slotState[producer.offset] = NOT_INITIALIZED
             /\ slotLock[producer.offset] = 0
          THEN [producer EXCEPT !.pc = "cas"]
          ELSE NextBlock(producer)
    /\ UNCHANGED <<slotState, slotLock, contentAddress, blocks, signalPipe,
                   queueSize, consumer, delivered, notQueue>>

\* get_free_block, memoryboard.py:497-499
PutCas ==
    /\ producer.pc = "cas"
    /\ slotLock' = [slotLock EXCEPT ![producer.offset] = AtomicByteLock(@)]
    /\ producer' =
          IF slotLock[producer.offset] = 0
          THEN [producer EXCEPT !.pc = "build"]
          ELSE NextBlock(producer)
    /\ UNCHANGED <<slotState, contentAddress, blocks, signalPipe, queueSize,
                   consumer, delivered, notQueue>>

\* get_free_block, memoryboard.py:501-504
PutBuild ==
    /\ producer.pc = "build"
    /\ slotState' = [slotState EXCEPT ![producer.offset] = BUILDING]
    /\ producer' = [producer EXCEPT !.pc = "fill"]
    /\ UNCHANGED <<slotLock, contentAddress, blocks, signalPipe, queueSize,
                   consumer, delivered, notQueue>>

\* new_item, memoryboard.py:450-452
PutFill ==
    /\ producer.pc = "fill"
    /\ contentAddress' = [contentAddress EXCEPT ![producer.offset] = producer.item]
    /\ blocks' = [blocks EXCEPT ![producer.offset] = producer.item]
    /\ producer' = [producer EXCEPT !.pc = "ready"]
    /\ UNCHANGED <<slotState, slotLock, signalPipe, queueSize, consumer,
                   delivered, notQueue>>

\* new_item, memoryboard.py:453
PutReady ==
    /\ producer.pc = "ready"
    /\ slotState' = [slotState EXCEPT ![producer.offset] = READY]
    /\ producer' = [producer EXCEPT !.pc = "unlock"]
    /\ UNCHANGED <<slotLock, contentAddress, blocks, signalPipe, queueSize,
                   consumer, delivered, notQueue>>

\* new_item, memoryboard.py:454-455
PutUnlock ==
    /\ producer.pc = "unlock"
    /\ slotLock' = [slotLock EXCEPT ![producer.offset] = 0]
    /\ producer' = [producer EXCEPT !.pc = "signal"]
    /\ UNCHANGED <<slotState, contentAddress, blocks, signalPipe, queueSize,
                   consumer, delivered, notQueue>>

\* Queue.put, queue.py:539-540: the pipe is writable and gets its byte
PutSignal ==
    /\ producer.pc = "signal"
    /\ signalPipe' = signalPipe + 1
    /\ producer' = [producer EXCEPT !.pc = "idle", !.res = "ok",
                                    !.posted = @ \cup {producer.item}]
    /\ UNCHANGED <<slotState, slotLock, contentAddress, blocks, queueSize,
                   consumer, delivered, notQueue>>

----
\* LockableBoardParent.collect, memoryboard.py:472-486, called by the origin
\* between its puts: past the last slot it returns the number of free slots
CollectNext(p) ==
    IF p.offset + 1 < NSlots
    THEN [p EXCEPT !.offset = @ + 1, !.pc = "collect"]
    ELSE [p EXCEPT !.pc = "idle", !.res = "ok"]

\* collect, memoryboard.py:475 and 481: the state byte of the slot is read
CollectScan ==
    /\ \/ /\ producer.pc = "idle"
          /\ producer.calls < MaxBoardCalls
          /\ producer' = [producer EXCEPT !.pc = "collect", !.offset = 0,
                                          !.free = 0, !.res = "none",
                                          !.calls = @ + 1]
       \/ /\ producer.pc = "collect"
          /\ producer' = IF slotState[producer.offset] = GARBAGE
                         THEN [producer EXCEPT !.pc = "sweep"]
                         ELSE [producer EXCEPT !.pc = "count"]
    /\ UNCHANGED <<slotState, slotLock, contentAddress, blocks, signalPipe,
                   queueSize, consumer, delivered, notQueue>>

\* collect, memoryboard.py:482-483: the anchor of a garbage slot is dropped
\* and its state and lock bytes are zeroed
CollectSweep ==
    /\ producer.pc = "sweep"
    /\ LET o == producer.offset IN
       IF blocks[o] = 0
       THEN /\ producer' = [producer EXCEPT !.pc = "idle", !.res = "KeyError"]
            /\ UNCHANGED <<slotState, slotLock, blocks>>
       ELSE /\ blocks' = [blocks EXCEPT ![o] = 0]
            /\ slotState' = [slotState EXCEPT ![o] = NOT_INITIALIZED]
            /\ slotLock' = [slotLock EXCEPT ![o] = 0]
            /\ producer' = [producer EXCEPT !.pc = "count"]
    /\ UNCHANGED <<contentAddress, signalPipe, queueSize, consumer, delivered,
                   notQueue>>

\* collect, memoryboard.py:484-486: a slot whose state byte is 0 is counted
CollectCount ==
    /\ producer.pc = "count"
    /\ producer' =
          CollectNext([producer EXCEPT !.free =
              IF slotState[producer.offset] = NOT_INITIALIZED THEN @ + 1 ELSE @])
    /\ UNCHANGED <<slotState, slotLock, contentAddress, blocks, signalPipe,
                   queueSize, consumer, delivered, notQueue>>

\* LockableBoardParent.__delitem__, memoryboard.py:461-467: del board[o] by the
\* origin reads the lock and state bytes of the slot and refuses a locked slot
\* and a slot in BUILDING or LOCKED
DelItemCheck(o) ==
    /\ producer.pc = "idle"
    /\ producer.calls < MaxBoardCalls
    /\ producer' =
          IF slotLock[o] # 0
             \/ slotState[o] \notin {NOT_INITIALIZED, READY, GARBAGE}
          THEN [producer EXCEPT !.res = "ValueError", !.offset = o,
                                !.calls = @ + 1]
          ELSE [producer EXCEPT !.pc = "delete", !.res = "none", !.offset = o,
                                !.calls = @ + 1]
    /\ UNCHANGED <<slotState, slotLock, contentAddress, blocks, signalPipe,
                   queueSize, consumer, delivered, notQueue>>

\* __delitem__, memoryboard.py:468-470
DelItem ==
    /\ producer.pc = "delete"
    /\ blocks' = [blocks EXCEPT ![producer.offset] = 0]
    /\ slotState' = [slotState EXCEPT ![producer.offset] = NOT_INITIALIZED]
    /\ contentAddress' = [contentAddress EXCEPT ![producer.offset] = 0]
    /\ producer' = [producer EXCEPT !.pc = "idle", !.res = "ok"]
    /\ UNCHANGED <<slotLock, signalPipe, queueSize, consumer, delivered,
                   notQueue>>

----
\* Queue.get, queue.py:528-532: the oldest element of the consumer's deque is
\* returned; with an empty deque the call raises
GetReturn(c, r) ==
    IF r.data # <<>>
    THEN /\ consumer' = [consumer EXCEPT ![c] =
               [r EXCEPT !.pc = "idle", !.res = "item", !.val = Head(r.data),
                         !.data = Tail(r.data)]]
         /\ delivered' = [delivered EXCEPT ![c] = Append(@, Head(r.data))]
    ELSE /\ consumer' = [consumer EXCEPT ![c] =
               [r EXCEPT !.pc = "idle",
                         !.res = IF r.block THEN "Timeout" ELSE "Empty"]]
         /\ UNCHANGED delivered

\* Queue._fetch, queue.py:507-508, then the return of Queue.get
GetDeliver(c, r) ==
    GetReturn(c, [r EXCEPT !.data = DequeAppend(@, r.obj, queueSize), !.obj = 0])

\* Queue.get, queue.py:510-523: the select on the signal pipe.  A blocking
\* get has no timeout and stays in select until the pipe has a byte.
DoGetSelect(c, r) ==
    /\ IF signalPipe > 0
       THEN /\ consumer' = [consumer EXCEPT ![c] = [r EXCEPT !.pc = "scan", !.index = 0]]
            /\ UNCHANGED delivered
       ELSE /\ ~r.block
            /\ GetReturn(c, r)
    /\ UNCHANGED <<slotState, slotLock, contentAddress, blocks, signalPipe,
                   queueSize, producer, notQueue>>

StartGet(c) ==
    /\ consumer[c].pc = "idle"
    /\ consumer[c].ngets < MaxGets
    /\ \E b \in BOOLEAN :
          DoGetSelect(c, [consumer[c] EXCEPT !.block = b, !.ngets = @ + 1,
                                             !.res = "none", !.val = 0])

\* get_work_data, memoryboard.py:526-530 and 534-535: the state byte of the
\* next slot is read; past the last slot the fetch returns None
FetchScan(c) ==
    /\ consumer[c].pc = "scan"
    /\ LET r == consumer[c] IN
       IF r.index = NSlots
       THEN GetReturn(c, r)
       ELSE /\ consumer' = [consumer EXCEPT ![c] =
                  IF slotState[r.index] = READY THEN [r EXCEPT !.pc = "cas"]
                  ELSE [r EXCEPT !.index = @ + 1]]
            /\ UNCHANGED delivered
    /\ UNCHANGED <<slotState, slotLock, contentAddress, blocks, signalPipe,
                   queueSize, producer, notQueue>>

\* get_work_data, memoryboard.py:531-533
FetchCas(c) ==
    /\ consumer[c].pc = "cas"
    /\ LET r == consumer[c] IN
       /\ slotLock' = [slotLock EXCEPT ![r.index] = AtomicByteLock(@)]
       /\ consumer' = [consumer EXCEPT ![c] =
             IF slotLock[r.index] = 0 THEN [r EXCEPT !.pc = "own"]
             ELSE [r EXCEPT !.pc = "scan", !.index = @ + 1]]
    /\ UNCHANGED <<slotState, contentAddress, blocks, signalPipe, queueSize,
                   producer, delivered, notQueue>>

\* get_work_data, memoryboard.py:536-537
FetchOwn(c) ==
    /\ consumer[c].pc = "own"
    /\ slotState' = [slotState EXCEPT ![consumer[c].index] = LOCKED]
    /\ consumer' = [consumer EXCEPT ![c].pc = "unlock"]
    /\ UNCHANGED <<slotLock, contentAddress, blocks, signalPipe, queueSize,
                   producer, delivered, notQueue>>

\* get_work_data, memoryboard.py:538
FetchUnlock(c) ==
    /\ consumer[c].pc = "unlock"
    /\ slotLock' = [slotLock EXCEPT ![consumer[c].index] = 0]
    /\ consumer' = [consumer EXCEPT ![c].pc = "load"]
    /\ UNCHANGED <<slotState, contentAddress, blocks, signalPipe, queueSize,
                   producer, delivered, notQueue>>

\* get_work_data, memoryboard.py:539-541: the payload is read and unpickled.
\* Memory the origin has dropped may still hold the old bytes or anything
\* else; with anything else the unpickling raises out of Queue.get.
FetchLoad(c) ==
    /\ consumer[c].pc = "load"
    /\ LET r == consumer[c]
           v == contentAddress[r.index]
       IN \/ consumer' = [consumer EXCEPT ![c] = [r EXCEPT !.pc = "garbage", !.obj = v]]
          \/ /\ ~Anchored(v)
             /\ consumer' = [consumer EXCEPT ![c] = [r EXCEPT !.pc = "idle", !.res = "Error"]]
    /\ UNCHANGED <<slotState, slotLock, contentAddress, blocks, signalPipe,
                   queueSize, producer, delivered, notQueue>>

\* get_work_data, memoryboard.py:542-545
FetchGarbage(c) ==
    /\ consumer[c].pc = "garbage"
    /\ slotState' = [slotState EXCEPT ![consumer[c].index] = GARBAGE]
    /\ consumer' = [consumer EXCEPT ![c].pc = "ack"]
    /\ UNCHANGED <<slotLock, contentAddress, blocks, signalPipe, queueSize,
                   producer, delivered, notQueue>>

\* Queue._fetch, queue.py:506, _PipeBase.read, queue.py:97-102: the select
\* before the read of the signal byte
GetAck(c) ==
    /\ consumer[c].pc = "ack"
    /\ IF signalPipe > 0
       THEN /\ consumer' = [consumer EXCEPT ![c].pc = "read"]
            /\ UNCHANGED delivered
       ELSE GetDeliver(c, consumer[c])
    /\ UNCHANGED <<slotState, slotLock, contentAddress, blocks, signalPipe,
                   queueSize, producer, notQueue>>

\* _PipeBase.read_blocking, queue.py:93-95 and 103: os.read takes one byte,
\* and waits for one if another reader emptied the pipe meanwhile
GetRead(c) ==
    /\ consumer[c].pc = "read"
    /\ signalPipe > 0
    /\ signalPipe' = signalPipe - 1
    /\ GetDeliver(c, consumer[c])
    /\ UNCHANGED <<slotState, slotLock, contentAddress, blocks, queueSize,
                   producer, notQueue>>

\* a queue nobody has used
QueueAtRest ==
    /\ slotState = [o \in Slots |-> NOT_INITIALIZED]
    /\ slotLock = [o \in Slots |-> 0]
    /\ contentAddress = [o \in Slots |-> 0]
    /\ blocks = [o \in Slots |-> 0]
    /\ signalPipe = 0
    /\ queueSize = NoMaxLen
    /\ producer = IdleProducer
    /\ consumer = <<IdleConsumer>>
    /\ delivered = <<<<>>>>

LockAtRest ==
    /\ lockByte = 0
    /\ entered = [v \in Views |-> 0]
    /\ kind = "Lock"
    /\ viewOf = <<1, 2>>
    /\ menu = {}
    /\ th = [t \in 1..2 |-> IdleThread]

(***************************************************************************)
(* The life of a remote array.  One buffer, the instance of the            *)
(* interpreter that created it (the origin), the unpickled copies          *)
(* held by other interpreters, and the entry the origin leaves in          *)
(* _array_registry when it closes too early (limbo).                       *)
(* A section run under the header lock is a step of its own, after the     *)
(* step that takes the lock.  Time is the number of picklings whose        *)
(* time-to-live has run out.                                               *)
(***************************************************************************)
\* class RemoteState, remote_array.py:26-31
RS_BUILDING == 0
RS_READY == 1
RS_SERIALIZED == 2
RS_RECEIVED == 2
RS_GARBAGE == 3

Copies == DOMAIN copies

NewCopy(k) ==
    [pickle |-> k, data |-> "none", dataState |-> "not_ready", pc |-> "idle",
     calls |-> 0, entered |-> 0, exited |-> 0, lock |-> FALSE]

CheckTtlNever(k) == TRUE

\* _check_ttl, remote_array.py:349-353, of an instance whose _timestamp was
\* set by pickling number k (0: it has no _timestamp)
CheckTtl(k) == k = 0 \/ k > expired

\* the outcome of the last call
Last(who, op, res) == [who |-> who, op |-> op, res |-> res]

EnterParentAnyState(state) == TRUE

\* _enter_parent, remote_array.py:228: the state in which start() is accepted
EnterParentAccepts(state) == state = RS_BUILDING

\* __getstate__, remote_array.py:299-303: the states in which pickling is
\* accepted
GetStateAccepts(state) == state \in {RS_READY, RS_SERIALIZED, RS_RECEIVED}

\* __getstate__, remote_array.py:308-309
GetStateNext(state) == IF state = RS_READY THEN RS_SERIALIZED ELSE state

\* _enter_child, remote_array.py:218-221
EnterChildAccepts(state) == state \in {RS_SERIALIZED, RS_RECEIVED}

\* close without the test of the time-to-live (remote_array.py:374)
CloseStateNoTtl(state, ttlCleared, enters, exits) ==
    IF state \in {RS_BUILDING, RS_READY} THEN RS_GARBAGE
    ELSE IF exits >= enters THEN RS_GARBAGE
    ELSE state

\* close, remote_array.py:367-377: the header state the locked section of
\* close leaves
CloseState(state, ttlCleared, enters, exits) ==
    IF state \in {RS_BUILDING, RS_READY} THEN RS_GARBAGE
    ELSE IF ttlCleared /\ exits >= enters THEN RS_GARBAGE
    ELSE state

\* the header lock (RemoteHeader.lock): who holds it, and inside which call
NoHolder == [who |-> -1, op |-> "none"]
Holder(who, op) == [who |-> who, op |-> op]

\* the thread of the origin is inside no call on the remote array
OriginIdle == closing = "none" /\ raLock.who # 0

----
\* start() on the origin: start, remote_array.py:234-243, header, 163-167,
\* _enter_parent, 227-232
OriginStart ==
    /\ OriginIdle
    /\ origin.calls < MaxOriginCalls
    /\ IF origin.dataState = "not_ready"
       THEN /\ raLast' = Last(0, "start", "BufferNotReady")
            /\ UNCHANGED raState
       ELSE IF EnterParentAccepts(raState)
       THEN /\ raState' = RS_READY
            /\ raLast' = Last(0, "start", "ok")
       ELSE /\ raLast' = Last(0, "start", "InvalidState")
            /\ UNCHANGED raState
    /\ origin' = [origin EXCEPT !.calls = @ + 1]
    /\ UNCHANGED <<enterCount, exitCount, raAlive, limbo, pickles, expired,
                   copies, closing, raLock, useAfterFree, notRA>>

\* A call of the origin reaches "with self._lock" (lock.py:68-92) for call op.
\* After close the origin's header raises inside the section (163-167), and
\* the lock byte may be in memory the origin has released: taking it then
\* times out or goes through.  A lock another interpreter holds past the
\* timeout makes the call raise TimeoutError.
OriginLock(op) ==
    /\ OriginIdle
    /\ origin.calls < MaxOriginCalls
    /\ origin' = [origin EXCEPT !.calls = @ + 1]
    /\ IF ~raAlive
       THEN /\ raLast' \in {Last(0, op, "BufferNotReady"), Last(0, op, "Timeout")}
            /\ useAfterFree' = TRUE
            /\ UNCHANGED raLock
       ELSE IF raLock # NoHolder
       THEN /\ raLast' = Last(0, op, "Timeout")
            /\ UNCHANGED <<raLock, useAfterFree>>
       ELSE IF origin.dataState = "not_ready"
       THEN /\ raLast' = Last(0, op, "BufferNotReady")
            /\ UNCHANGED <<raLock, useAfterFree>>
       ELSE /\ raLock' = Holder(0, op)
            /\ UNCHANGED <<raLast, useAfterFree>>

\* pickling the origin: __getstate__, remote_array.py:297-298
OriginGetState ==
    /\ OriginLock("pickle")
    /\ origin.dataState # "not_ready" /\ GetStateAccepts(raState)
          => pickles < MaxPickles
    /\ UNCHANGED <<raState, enterCount, exitCount, raAlive, limbo, pickles,
                   expired, copies, closing, notRA>>

\* __getstate__, remote_array.py:299-317, under the header lock
GetStateLocked ==
    /\ raLock = Holder(0, "pickle")
    /\ raLock' = NoHolder
    /\ IF GetStateAccepts(raState)
       THEN /\ raState' = GetStateNext(raState)
            /\ pickles' = pickles + 1
            /\ raLast' = Last(0, "pickle", "ok")
       ELSE /\ raLast' = Last(0, "pickle", "InvalidState")
            /\ UNCHANGED <<raState, pickles>>
    /\ UNCHANGED <<enterCount, exitCount, raAlive, origin, limbo, expired,
                   copies, closing, useAfterFree, notRA>>

\* unpickling in another interpreter: __setstate__, remote_array.py:319-332
SetState ==
    /\ Len(copies) < MaxCopies
    /\ \E k \in 1..pickles :
          /\ copies' = Append(copies, NewCopy(k))
          /\ raLast' = Last(Len(copies) + 1, "unpickle", "ok")
    /\ UNCHANGED <<raState, enterCount, exitCount, raAlive, origin, limbo,
                   pickles, expired, closing, raLock, useAfterFree, notRA>>

\* the time-to-live of the oldest pickling still running runs out
TtlExpires ==
    /\ expired < pickles
    /\ expired' = expired + 1
    /\ UNCHANGED <<raState, enterCount, exitCount, raAlive, origin, limbo,
                   pickles, copies, closing, raLast, raLock, useAfterFree,
                   notRA>>

\* start() on a copy, up to the header lock: start, remote_array.py:234-243,
\* _enter_child, 200-208
ChildStart(i) ==
    /\ copies[i].pc = "idle"
    /\ copies[i].calls < MaxCopyCalls
    /\ IF ~CheckTtl(copies[i].pickle)
       THEN /\ copies' = [copies EXCEPT ![i].calls = @ + 1]
            /\ raLast' = Last(i, "start", "TTLExceeded")
       ELSE /\ copies' = [copies EXCEPT ![i].calls = @ + 1,
                                        ![i].data = "mapped",
                                        ![i].lock = TRUE,
                                        ![i].pc = "entering"]
            /\ UNCHANGED raLast
    /\ UNCHANGED <<raState, enterCount, exitCount, raAlive, origin, limbo,
                   pickles, expired, closing, raLock, useAfterFree, notRA>>

\* Copy i, its record in c, reaches "with self._lock" (lock.py:68-92) at
\* remote_array.py:209 (op = "start", then at pc next = "entered") or 361
\* (op = "close", next = "closing").  In memory the origin has released, taking the lock times out
\* or goes through.
ChildLock(c, i, op, next) ==
    IF ~raAlive
    THEN /\ useAfterFree' = TRUE
         /\ UNCHANGED raLock
         /\ \/ /\ copies' = [c EXCEPT ![i].pc = "idle"]
               /\ raLast' = Last(i, op, "Timeout")
            \/ /\ copies' = [c EXCEPT ![i].pc = next]
               /\ UNCHANGED raLast
    ELSE IF raLock # NoHolder
    THEN /\ copies' = [c EXCEPT ![i].pc = "idle"]
         /\ raLast' = Last(i, op, "Timeout")
         /\ UNCHANGED <<raLock, useAfterFree>>
    ELSE /\ raLock' = Holder(i, op)
         /\ copies' = [c EXCEPT ![i].pc = next]
         /\ UNCHANGED <<raLast, useAfterFree>>

\* the header lock is given back by copy i (lock.py:97-107)
ChildUnlock(i) == IF raLock.who = i THEN NoHolder ELSE raLock

\* _enter_child, remote_array.py:209: the header lock is taken
EnterChildLock(i) ==
    /\ copies[i].pc = "entering"
    /\ ChildLock(copies, i, "start", "entered")
    /\ UNCHANGED <<raState, enterCount, exitCount, raAlive, origin, limbo,
                   pickles, expired, closing, notRA>>

\* the locked section of _enter_child, remote_array.py:210-225.  In memory
\* the origin has released the header state read is any value, and the
\* count written is lost.
EnterChild(i) ==
    /\ copies[i].pc = "entered"
    /\ raLock' = ChildUnlock(i)
    /\ useAfterFree' = (useAfterFree \/ ~raAlive)
    /\ IF ~CheckTtl(copies[i].pickle)
       THEN /\ copies' = [copies EXCEPT ![i].pc = "idle", ![i].data = "none"]
            /\ raLast' = Last(i, "start", "TTLExceeded")
            /\ UNCHANGED enterCount
       ELSE \E state \in IF raAlive THEN {raState}
                         ELSE RS_BUILDING..RS_GARBAGE :
               IF EnterChildAccepts(state)
               THEN /\ enterCount' = IF raAlive THEN enterCount + 1
                                     ELSE enterCount
                    /\ copies' = [copies EXCEPT
                                     ![i].pc = "idle",
                                     ![i].dataState = "read_write",
                                     ![i].entered = @ + 1]
                    /\ raLast' = Last(i, "start", "ok")
               ELSE /\ copies' = [copies EXCEPT
                                     ![i].pc = "idle",
                                     ![i].data = "none",
                                     ![i].dataState = "read_write"]
                    /\ raLast' = Last(i, "start", "InvalidState")
                    /\ UNCHANGED enterCount
    /\ UNCHANGED <<raState, exitCount, raAlive, origin, limbo, pickles,
                   expired, closing, notRA>>

\* close() on a copy: close, remote_array.py:358-361
ChildClose(i) ==
    /\ copies[i].pc = "idle"
    /\ copies[i].calls < MaxCopyCalls
    /\ IF copies[i].data = "none"
       THEN /\ copies' = [copies EXCEPT ![i].calls = @ + 1]
            /\ raLast' = Last(i, "close", "ok")
            /\ UNCHANGED <<raLock, useAfterFree>>
       ELSE ChildLock([copies EXCEPT ![i].calls = @ + 1], i, "close",
                      "closing")
    /\ UNCHANGED <<raState, enterCount, exitCount, raAlive, origin, limbo,
                   pickles, expired, closing, notRA>>

ChildCloseLockedUnchecked(i) ==
    /\ copies[i].pc = "closing"
    /\ raLock' = ChildUnlock(i)
    /\ useAfterFree' = (useAfterFree \/ ~raAlive)
    /\ exitCount' = IF raAlive THEN exitCount + 1 ELSE exitCount
    /\ copies' = [copies EXCEPT ![i].pc = "idle",
                                ![i].data = "none",
                                ![i].dataState = "not_ready",
                                ![i].exited = @ + 1]
    /\ raLast' = Last(i, "close", "ok")
    /\ UNCHANGED <<raState, enterCount, raAlive, origin, limbo, pickles,
                   expired, closing, notRA>>

\* close, remote_array.py:362-365, under the header lock
ChildCloseLocked(i) ==
    /\ copies[i].pc = "closing"
    /\ raLock' = ChildUnlock(i)
    /\ useAfterFree' = (useAfterFree \/ ~raAlive)
    /\ IF copies[i].dataState = "not_ready"
       THEN /\ copies' = [copies EXCEPT ![i].pc = "idle"]
            /\ raLast' = Last(i, "close", "BufferNotReady")
            /\ UNCHANGED exitCount
       ELSE /\ exitCount' = IF raAlive THEN exitCount + 1 ELSE exitCount
            /\ copies' = [copies EXCEPT ![i].pc = "idle",
                                        ![i].data = "none",
                                        ![i].dataState = "not_ready",
                                        ![i].exited = @ + 1]
            /\ raLast' = Last(i, "close", "ok")
    /\ UNCHANGED <<raState, enterCount, raAlive, origin, limbo, pickles,
                   expired, closing, notRA>>

\* the locked section of close() on the origin (who = "origin") or on its
\* entry in _array_registry (who = "zombie"): close, remote_array.py:366-377
DoClose(who) ==
    /\ raState' = CloseState(raState, ~CheckTtl(pickles), enterCount,
                             exitCount)
    /\ closing' = who

\* close() on the origin, up to the header lock: close, remote_array.py:
\* 355-366
OriginClose ==
    /\ OriginLock("close")
    /\ UNCHANGED <<raState, enterCount, exitCount, raAlive, limbo, pickles,
                   expired, copies, closing, notRA>>

\* a sweep that leaves the entries of the registry alone
CollectorSkips ==
    /\ OriginIdle
    /\ limbo
    /\ raLast' = Last(0, "sweep", "ok")
    /\ UNCHANGED <<raState, enterCount, exitCount, raAlive, origin, limbo,
                   pickles, expired, copies, closing, raLock, useAfterFree,
                   notRA>>

\* _collector, remote_array.py:59-79: the sweep calls close() on the entry in
\* limbo, which reaches the header lock
Collector ==
    /\ OriginIdle
    /\ limbo
    /\ IF raLock # NoHolder
       THEN /\ raLast' = Last(0, "sweep", "Timeout")
            /\ UNCHANGED raLock
       ELSE /\ raLock' = Holder(0, "sweep")
            /\ UNCHANGED raLast
    /\ UNCHANGED <<raState, enterCount, exitCount, raAlive, origin, limbo,
                   pickles, expired, copies, closing, useAfterFree, notRA>>

\* close, remote_array.py:367-377, under the header lock
CloseLocked ==
    /\ raLock.who = 0
    /\ raLock.op \in {"close", "sweep"}
    /\ DoClose(IF raLock.op = "close" THEN "origin" ELSE "zombie")
    /\ raLock' = NoHolder
    /\ UNCHANGED <<enterCount, exitCount, raAlive, origin, limbo, pickles,
                   expired, copies, raLast, useAfterFree, notRA>>

\* the rest of close, remote_array.py:379-391 (_copy_to_limbo, 337-347), and
\* for the sweep the filter of _collector, remote_array.py:59-79
FinishClose ==
    /\ closing # "none"
    /\ closing' = "none"
    /\ raLast' = Last(0, IF closing = "origin" THEN "close" ELSE "sweep",
                       "ok")
    /\ IF raState = RS_GARBAGE
       THEN /\ raAlive' = FALSE
            /\ limbo' = FALSE
            /\ raLock' = NoHolder
       ELSE /\ limbo' = TRUE
            /\ UNCHANGED <<raAlive, raLock>>
    /\ origin' = [origin EXCEPT
                     !.dataState = "not_ready",
                     !.cursor = IF closing = "origin" /\ raState # RS_GARBAGE
                                THEN FALSE ELSE @]
    /\ UNCHANGED <<raState, enterCount, exitCount, pickles, expired, copies,
                   useAfterFree, notRA>>

(***************************************************************************)
(* Reading and writing the data of a remote array: by item                 *)
(* (__getitem__, __setitem__) and as a stream (read, write).               *)
(***************************************************************************)
Bytes == 0..1
StreamOps == {"read", "write"}

\* what the reads and writes leave alone
AccessKeeps ==
    UNCHANGED <<raState, enterCount, exitCount, raAlive, origin, limbo,
                pickles, expired, closing, notAccess>>

\* __getitem__ on a copy, remote_array.py:177-185
ChildGetItem(i) ==
    /\ copies[i].pc = "idle"
    /\ accesses < MaxAccesses
    /\ accesses' = accesses + 1
    /\ raLast' = Last(i, "getitem",
                      IF copies[i].dataState # "read_write"
                      THEN "BufferNotReady"
                      ELSE IF copies[i].data = "none" THEN "AttributeError"
                      ELSE "ok")
    /\ useAfterFree' = (useAfterFree \/ (/\ copies[i].dataState = "read_write"
                                         /\ copies[i].data = "mapped"
                                         /\ ~raAlive))
    /\ UNCHANGED <<copies, raLock, payload>>
    /\ AccessKeeps

\* __setitem__ on a copy, up to the header lock: remote_array.py:187-196
ChildSetItem(i) ==
    /\ copies[i].pc = "idle"
    /\ accesses < MaxAccesses
    /\ accesses' = accesses + 1
    /\ IF copies[i].dataState # "read_write"
       THEN /\ raLast' = Last(i, "setitem", "BufferNotReady")
            /\ UNCHANGED <<copies, raLock, useAfterFree>>
       ELSE ChildLock(copies, i, "setitem", "setitem")
    /\ UNCHANGED payload
    /\ AccessKeeps

\* read() and write() on a copy, up to the header lock: remote_array.py:
\* 254-255, 262-263.  Before the first start() the copy's _lock is None
\* (328) and the with statement raises TypeError.
ChildStream(i, op) ==
    /\ copies[i].pc = "idle"
    /\ accesses < MaxAccesses
    /\ accesses' = accesses + 1
    /\ IF ~copies[i].lock
       THEN /\ raLast' = Last(i, op, "TypeError")
            /\ UNCHANGED <<copies, raLock, useAfterFree>>
       ELSE ChildLock(copies, i, op, op)
    /\ UNCHANGED payload
    /\ AccessKeeps

\* the section of a read or write of a copy under the header lock:
\* remote_array.py:197 for __setitem__; 256-260 and 264-267 for read and
\* write, which go through __getitem__ and __setitem__ (177-198)
ChildAccessLocked(i) ==
    /\ copies[i].pc \in StreamOps \cup {"setitem"}
    /\ raLock' = ChildUnlock(i)
    /\ copies' = [copies EXCEPT ![i].pc = "idle"]
    /\ useAfterFree' = (useAfterFree \/ ~raAlive)
    /\ IF copies[i].dataState # "read_write"
       THEN /\ raLast' = Last(i, copies[i].pc, "BufferNotReady")
            /\ UNCHANGED payload
       ELSE IF copies[i].data = "none"
       THEN /\ raLast' = Last(i, copies[i].pc, "AttributeError")
            /\ UNCHANGED payload
       ELSE /\ raLast' = Last(i, copies[i].pc, "ok")
            /\ IF copies[i].pc = "read" \/ ~raAlive
               THEN UNCHANGED payload
               ELSE payload' \in Bytes
    /\ UNCHANGED accesses
    /\ AccessKeeps

\* __getitem__ on the origin, remote_array.py:177-185
OriginGetItem ==
    /\ OriginIdle
    /\ accesses < MaxAccesses
    /\ accesses' = accesses + 1
    /\ raLast' = Last(0, "getitem",
                      IF origin.dataState # "read_write"
                      THEN "BufferNotReady" ELSE "ok")
    /\ UNCHANGED <<copies, raLock, useAfterFree, payload>>
    /\ AccessKeeps

\* __setitem__ on the origin, up to the header lock: remote_array.py:187-196
OriginSetItem ==
    /\ OriginIdle
    /\ accesses < MaxAccesses
    /\ accesses' = accesses + 1
    /\ IF origin.dataState # "read_write"
       THEN /\ raLast' = Last(0, "setitem", "BufferNotReady")
            /\ UNCHANGED raLock
       ELSE IF raLock # NoHolder
       THEN /\ raLast' = Last(0, "setitem", "Timeout")
            /\ UNCHANGED raLock
       ELSE /\ raLock' = Holder(0, "setitem")
            /\ UNCHANGED raLast
    /\ UNCHANGED <<copies, useAfterFree, payload>>
    /\ AccessKeeps

\* read() and write() on the origin, up to the header lock: remote_array.py:
\* 254-255, 262-263.  After a close() that sent the buffer to limbo the
\* origin has no _cursor (390) and the section raises AttributeError; after
\* a close() that released the memory the lock byte is in released memory.
OriginStream(op) ==
    /\ OriginIdle
    /\ accesses < MaxAccesses
    /\ accesses' = accesses + 1
    /\ IF ~raAlive
       THEN /\ raLast' \in {Last(0, op, "Timeout"),
                            Last(0, op, IF origin.cursor THEN "BufferNotReady"
                                        ELSE "AttributeError")}
            /\ useAfterFree' = TRUE
            /\ UNCHANGED raLock
       ELSE IF raLock # NoHolder
       THEN /\ raLast' = Last(0, op, "Timeout")
            /\ UNCHANGED <<raLock, useAfterFree>>
       ELSE IF origin.dataState # "read_write"
       THEN /\ raLast' = Last(0, op, "AttributeError")
            /\ UNCHANGED <<raLock, useAfterFree>>
       ELSE /\ raLock' = Holder(0, op)
            /\ UNCHANGED <<raLast, useAfterFree>>
    /\ UNCHANGED <<copies, payload>>
    /\ AccessKeeps

\* the section of a read or write of the origin under the header lock:
\* remote_array.py:197, 256-260, 264-267
OriginAccessLocked ==
    /\ raLock.who = 0
    /\ raLock.op \in StreamOps \cup {"setitem"}
    /\ raLock' = NoHolder
    /\ raLast' = Last(0, raLock.op, "ok")
    /\ IF raLock.op = "read" THEN UNCHANGED payload ELSE payload' \in Bytes
    /\ UNCHANGED <<copies, useAfterFree, accesses>>
    /\ AccessKeeps

AccessAtRest ==
    /\ payload = 0
    /\ accesses = 0

RAAtRest ==
    /\ raState = RS_BUILDING
    /\ enterCount = 0
    /\ exitCount = 0
    /\ raAlive = TRUE
    /\ origin = [dataState |-> "read_write", calls |-> 0, cursor |-> TRUE]
    /\ limbo = FALSE
    /\ pickles = 0
    /\ expired = 0
    /\ copies = <<>>
    /\ closing = "none"
    /\ raLock = NoHolder
    /\ raLast = Last(0, "init", "ok")
    /\ useAfterFree = FALSE

(***************************************************************************)
(* A simplex pipe shared by several interpreters.  Interpreter 1 built it  *)
(* with _SimplexPipe() and pickled it while open; the others unpickle it.  *)
(* Every interpreter runs one call at a time.  The counter lives in the    *)
(* data of the RemoteArray _lock_array, under that array's header lock; a  *)
(* section run under the lock is a step of its own.  An object whose       *)
(* unpickling raised stays behind until its destructor runs.               *)
(***************************************************************************)
Interps == 1..NInterps

PipeObjects == DOMAIN pipes

\* the stage of a pipe object: "new" (built by _unpickler, _lock_array not
\* started), "started" (_lock_array started, counter not yet incremented),
\* "open" (_post_init done), "closed" (close ran to its end), "gone" (the
\* destructor has run and close raised)
NewPipe(i) == [interp |-> i, stage |-> "new", failed |-> FALSE]

IdleInterp == [pc |-> "idle", obj |-> 0]

PipeResult(i, op, res, o) == [who |-> i, op |-> op, res |-> res, obj |-> o]

\* the unpickling of object o in interpreter i raises res
FailUnpickle(ps, i, o, res) ==
    /\ pipes' = [ps EXCEPT ![o].failed = TRUE]
    /\ ip' = [ip EXCEPT ![i] = IdleInterp]
    /\ pipeLast' = PipeResult(i, "unpickle", res, o)

\* pickle.loads in interpreter i: _unpickler, queue.py:155-163, and for a
\* new object __setstate__, 173-176, _post_init, 183-193 and 49-51, up to
\* the header lock taken by _lock_array.start() (remote_array.py:200-209).
\* Registering closed file descriptors in the selector raises OSError.
PipeUnpickle(i) ==
    /\ ip[i].pc = "idle"
    /\ IF registry[i] # 0
       THEN /\ pipeLast' = PipeResult(i, "unpickle", "ok", registry[i])
            /\ UNCHANGED <<pipes, ip, pipeLock>>
       ELSE /\ Len(pipes) < MaxPipeObjects
            /\ LET o == Len(pipes) + 1
                   ps == Append(pipes, NewPipe(i))
               IN  IF ~fdsOpen
                   THEN /\ FailUnpickle(ps, i, o, "OSError")
                        /\ UNCHANGED pipeLock
                   ELSE IF pipeLock # 0
                   THEN /\ FailUnpickle(ps, i, o, "Timeout")
                        /\ UNCHANGED pipeLock
                   ELSE /\ pipes' = ps
                        /\ pipeLock' = i
                        /\ ip' = [ip EXCEPT ![i] = [pc |-> "entering",
                                                     obj |-> o]]
                        /\ UNCHANGED pipeLast
    /\ UNCHANGED <<registry, counter, fdsOpen, closeCalls, notPipe>>

\* _lock_array.start() under the header lock: remote_array.py:210-225
PipeEnter(i) ==
    /\ ip[i].pc = "entering"
    /\ pipes' = [pipes EXCEPT ![ip[i].obj].stage = "started"]
    /\ pipeLock' = 0
    /\ ip' = [ip EXCEPT ![i].pc = "count"]
    /\ UNCHANGED <<registry, counter, fdsOpen, closeCalls, pipeLast, notPipe>>

\* _PipeBase._post_init, queue.py:52-53: the lock around the counter
PipeCountLock(i) ==
    /\ ip[i].pc = "count"
    /\ IF pipeLock # 0
       THEN /\ FailUnpickle(pipes, i, ip[i].obj, "Timeout")
            /\ UNCHANGED pipeLock
       ELSE /\ pipeLock' = i
            /\ ip' = [ip EXCEPT ![i].pc = "counting"]
            /\ UNCHANGED <<pipes, pipeLast>>
    /\ UNCHANGED <<registry, counter, fdsOpen, closeCalls, notPipe>>

\* _PipeBase._post_init, queue.py:54, and the end of __setstate__, 177-181
\* (register_pipe, resources.py:114-124)
PipeCount(i) ==
    /\ ip[i].pc = "counting"
    /\ counter' = counter + 1
    /\ pipes' = [pipes EXCEPT ![ip[i].obj].stage = "open"]
    /\ registry' = [registry EXCEPT ![i] = ip[i].obj]
    /\ pipeLock' = 0
    /\ ip' = [ip EXCEPT ![i] = IdleInterp]
    /\ pipeLast' = PipeResult(i, "unpickle", "ok", ip[i].obj)
    /\ UNCHANGED <<fdsOpen, closeCalls, notPipe>>

\* close() of object o, up to its lock: _PipeBase.close, queue.py:106-110.
\* It is called by the interpreter that holds o, or, for an object whose
\* unpickling raised, by its destructor (__del__, 135-137), once.
PipeClose(i, o) ==
    /\ ip[i].pc = "idle"
    /\ pipes[o].interp = i
    /\ closeCalls < MaxCloses
    /\ closeCalls' = closeCalls + 1
    /\ pipes[o].failed => pipes[o].stage \in {"new", "started"}
    /\ IF pipeLock # 0
       THEN /\ pipeLast' = PipeResult(i, "close", "Timeout", o)
            /\ pipes' = [pipes EXCEPT ![o].stage =
                                          IF pipes[o].failed THEN "gone" ELSE @]
            /\ UNCHANGED <<pipeLock, ip>>
       ELSE /\ pipeLock' = i
            /\ ip' = [ip EXCEPT ![i] = [pc |-> "closing", obj |-> o]]
            /\ UNCHANGED <<pipes, pipeLast>>
    /\ UNCHANGED <<registry, counter, fdsOpen, notPipe>>

\* the counter after close: _PipeBase.close, queue.py:122-123
Decremented(n) == IF n # 0 THEN n - 1 ELSE n

\* _PipeBase.close under the lock and after it, queue.py:111-133.  A closed
\* object has no _all_fds left; the counter of an object whose _lock_array
\* was not started cannot be read (remote_array.py:177-185).
PipeCloseLocked(i) ==
    LET o == ip[i].obj
        hasFds == pipes[o].stage # "closed"
    IN  /\ ip[i].pc = "closing"
        /\ pipeLock' = 0
        /\ ip' = [ip EXCEPT ![i] = IdleInterp]
        /\ registry' = [registry EXCEPT ![i] = IF hasFds THEN 0 ELSE @]
        /\ IF pipes[o].stage = "new"
           THEN /\ pipeLast' = PipeResult(i, "close", "BufferNotReady", o)
                /\ pipes' = [pipes EXCEPT ![o].stage =
                                          IF pipes[o].failed THEN "gone" ELSE @]
                /\ UNCHANGED <<counter, fdsOpen>>
           ELSE /\ counter' = Decremented(counter)
                /\ fdsOpen' = (fdsOpen /\ ~(counter' = 0 /\ hasFds))
                /\ pipes' = [pipes EXCEPT ![o].stage = "closed"]
                /\ pipeLast' = PipeResult(i, "close", "ok", o)
        /\ UNCHANGED <<closeCalls, notPipe>>

\* _SimplexPipe() in interpreter 1: queue.py:149-153, 38-54
PipeAtRest ==
    /\ pipes = <<[interp |-> 1, stage |-> "open", failed |-> FALSE]>>
    /\ registry = [i \in Interps |-> IF i = 1 THEN 1 ELSE 0]
    /\ counter = 1
    /\ fdsOpen = TRUE
    /\ pipeLock = 0
    /\ ip = [i \in Interps |-> IdleInterp]
    /\ closeCalls = 0
    /\ pipeLast = PipeResult(1, "init", "ok", 1)

(***************************************************************************)
(* BOARD OF SEVERAL PRODUCERS: LockableBoard as queue.py and the tests use *)
(* it, with new_item in any interpreter, fetch_item that looks at the      *)
(* owner of a slot, and collect.  Interpreter 0 is the origin; the others  *)
(* hold an unpickled copy and can be closed while they are idle.  A value  *)
(* is the pair of its poster and the number of the post.                   *)
(***************************************************************************)
Posters == 0 .. MaxChildren

IdlePoster ==
    [pc |-> "idle", index |-> 0, res |-> "none", val |-> <<>>, gone |-> 0,
     nops |-> 0]

FreeSlot == [state |-> NOT_INITIALIZED, lock |-> 0, owner |-> 0, value |-> <<>>]

\* a fetch that takes every owner for alive
OwnerGoneNever(o) == FALSE

\* the owner of a slot is no longer in the set of live interpreters
OwnerGone(o) == obSlot[o].owner \notin obLive

\* new_item: the first slot that is NOT_INIT with lock 0 is locked and set to
\* BUILDING; with no such slot the call raises
OwnedNewItem(i) ==
    /\ i \in obLive /\ obProc[i].pc = "idle" /\ obProc[i].nops < MaxOwnedOps
    /\ LET free == {o \in Slots : obSlot[o].state = NOT_INITIALIZED
                                  /\ obSlot[o].lock = 0}
           r == [obProc[i] EXCEPT !.nops = @ + 1, !.val = <<>>]
       IN IF free = {}
          THEN /\ obProc' = [obProc EXCEPT ![i] = [r EXCEPT !.res = "BoardFull"]]
               /\ UNCHANGED obSlot
          ELSE LET o == CHOOSE x \in free : \A y \in free : x <= y IN
               /\ obSlot' = [obSlot EXCEPT ![o] =
                     [state |-> BUILDING, lock |-> 1, owner |-> i,
                      value |-> <<>>]]
               /\ obProc' = [obProc EXCEPT ![i] =
                     [r EXCEPT !.pc = "publish", !.index = o, !.res = "none"]]
    /\ UNCHANGED <<obLive, obAnchors, obFreed, notOwned>>

\* new_item: the payload is anchored, the slot filled, set READY and unlocked
OwnedPublish(i) ==
    /\ obProc[i].pc = "publish"
    /\ LET v == <<i, obProc[i].nops>> IN
       /\ obAnchors' = obAnchors \cup {v}
       /\ obSlot' = [obSlot EXCEPT ![obProc[i].index] =
             [state |-> READY, lock |-> 0, owner |-> i, value |-> v]]
    /\ obProc' = [obProc EXCEPT ![i] = [@ EXCEPT !.pc = "idle", !.res = "ok"]]
    /\ UNCHANGED <<obLive, obFreed, notOwned>>

\* Interpreter.close on an idle child: it leaves the set of live
\* interpreters and the payloads it kept alive are released
OwnedDie(i) ==
    /\ i \in obLive \ {0} /\ obProc[i].pc = "idle"
    /\ obLive' = obLive \ {i}
    /\ obAnchors' = {v \in obAnchors : v[1] # i}
    /\ UNCHANGED <<obSlot, obProc, obFreed, notOwned>>

\* fetch_item: the scan of the slots; a READY slot is tried, and past the
\* last slot the call returns None
OwnedFetchScan(i) ==
    /\ \/ /\ i \in obLive /\ obProc[i].pc = "idle"
          /\ obProc[i].nops < MaxOwnedOps
          /\ obProc' = [obProc EXCEPT ![i] =
                [@ EXCEPT !.pc = "scan", !.index = 0, !.res = "none",
                          !.val = <<>>, !.nops = @ + 1]]
       \/ /\ obProc[i].pc = "scan"
          /\ LET r == obProc[i] IN
             obProc' = [obProc EXCEPT ![i] =
                IF r.index = NSlots THEN [r EXCEPT !.pc = "idle", !.res = "None"]
                ELSE IF obSlot[r.index].state = READY THEN [r EXCEPT !.pc = "cas"]
                ELSE [r EXCEPT !.index = @ + 1]]
    /\ UNCHANGED <<obSlot, obLive, obAnchors, obFreed, notOwned>>

\* fetch_item: the CAS on the lock byte of the slot
OwnedFetchCas(i) ==
    /\ obProc[i].pc = "cas"
    /\ LET r == obProc[i] IN
       /\ obSlot' = [obSlot EXCEPT ![r.index].lock = AtomicByteLock(@)]
       /\ obProc' = [obProc EXCEPT ![i] =
             IF obSlot[r.index].lock = 0 THEN [r EXCEPT !.pc = "owner"]
             ELSE [r EXCEPT !.pc = "scan", !.index = @ + 1]]
    /\ UNCHANGED <<obLive, obAnchors, obFreed, notOwned>>

\* fetch_item: the slot of a poster that is gone is marked GARBAGE, the
\* counter of such slots goes up and the scan goes on; whether the lock byte
\* is released on this path is left open
OwnedFetchOwner(i) ==
    /\ obProc[i].pc = "owner"
    /\ LET r == obProc[i] IN
       IF OwnerGone(r.index)
       THEN /\ \E l \in {0, 1} :
                  obSlot' = [obSlot EXCEPT ![r.index].state = GARBAGE,
                                           ![r.index].lock = l]
            /\ obProc' = [obProc EXCEPT ![i] =
                  [r EXCEPT !.pc = "scan", !.index = @ + 1, !.gone = @ + 1]]
       ELSE /\ obProc' = [obProc EXCEPT ![i] = [r EXCEPT !.pc = "read"]]
            /\ UNCHANGED obSlot
    /\ UNCHANGED <<obLive, obAnchors, obFreed, notOwned>>

\* fetch_item: the payload is read and unpickled, the slot set to GARBAGE and
\* unlocked, and the value returned
OwnedFetchRead(i) ==
    /\ obProc[i].pc = "read"
    /\ LET r == obProc[i]
           v == obSlot[r.index].value
       IN /\ obFreed' = (obFreed \/ v \notin obAnchors)
          /\ obSlot' = [obSlot EXCEPT ![r.index].state = GARBAGE,
                                      ![r.index].lock = 0]
          /\ obProc' = [obProc EXCEPT ![i] =
                [r EXCEPT !.pc = "idle", !.res = "item", !.val = v]]
    /\ UNCHANGED <<obLive, obAnchors, notOwned>>

\* collect, by the origin: every GARBAGE slot goes back to NOT_INIT with its
\* lock byte 0, and the anchor of its payload is dropped
OwnedCollect ==
    /\ obProc[0].pc = "idle" /\ obProc[0].nops < MaxOwnedOps
    /\ obSlot' = [o \in Slots |->
          IF obSlot[o].state = GARBAGE THEN FreeSlot ELSE obSlot[o]]
    /\ obAnchors' = obAnchors \
          {obSlot[o].value : o \in {x \in Slots : obSlot[x].state = GARBAGE}}
    /\ obProc' = [obProc EXCEPT ![0] =
          [@ EXCEPT !.res = "collected", !.val = <<>>, !.nops = @ + 1]]
    /\ UNCHANGED <<obLive, obFreed, notOwned>>

\* a board nobody has used, in the origin and in every child
OwnedAtRest ==
    /\ obSlot = [o \in Slots |-> FreeSlot]
    /\ obLive = Posters
    /\ obAnchors = {}
    /\ obProc = [i \in Posters |-> IdlePoster]
    /\ obFreed = FALSE

(***************************************************************************)
(* WORKER  (src/src/extrainterpreters/base_interpreter.py and              *)
(* simple_interpreter.py): one interpreter object, the thread that calls   *)
(* it, the thread run_in_thread starts and the child interpreter.  The     *)
(* k-th call of run or run_in_thread returns the value k.  Sizes are in    *)
(* units of the model: the program has the send region at 4096 and the     *)
(* return region at four fifths of BFSZ.                                   *)
(***************************************************************************)
\* ProcessBuffer.ranges: where the send region and the return region start
SendStart == 1
ReturnStart == 7
\* the end of the buffer
BufferEnd == 9
\* ProcessBuffer._init_range_sizes: range_sizes["send_data"]
SendSize == ReturnStart - SendStart

\* the pickles of the function and of the keyword arguments
FuncLen == 1
KwargsLen == 1
\* the pickles of the positional arguments the calls are made with
ArgLens == {2, 4, 5, 6}
\* the bytes of a whole payload
PayloadLen(a) == FuncLen + a + KwargsLen

\* the numbers of the calls, and what overflowing bytes leave in a flag
CallIds == 1 .. MaxCalls
Garbage == -1

\* FileLikeArray.tell after each pickle.dump of execute, which starts at
\* the send region's offset
Tells(a) == << SendStart + FuncLen,
               SendStart + FuncLen + a,
               SendStart + FuncLen + a + KwargsLen >>

\* the test execute makes after each dump
TooLargeAt(a, i) == Tells(a)[i] > BufferEnd \/ Tells(a)[i] >= SendSize

\* execute raises for this payload
PayloadRejected(a) == \E i \in 1 .. 3 : TooLargeAt(a, i)

\* where the cursor is when execute stops dumping
DumpedUpTo(a) ==
    IF PayloadRejected(a)
    THEN Tells(a)[CHOOSE i \in 1 .. 3 :
                    TooLargeAt(a, i) /\ \A j \in 1 .. (i - 1) : ~TooLargeAt(a, j)]
    ELSE Tells(a)[3]

\* the dumps wrote on the first byte of the return region
DumpReachesReturn(a) == DumpedUpTo(a) > ReturnStart

NoCall == [pc |-> "idle", by |-> "none", call |-> 0, arg |-> 0]
IdleCaller == [pc |-> "idle", op |-> "none", res |-> "none", val |-> 0]
NewWorker == [intno |-> 0, id |-> 0, channel |-> "unset", exception |-> 0,
              cached |-> 0, thread |-> "none", gone |-> FALSE,
              starts |-> 0, calls |-> 0, closes |-> 0]
NoLog == [arg |-> 0, verdict |-> "none", ran |-> FALSE, wrote |-> FALSE,
          ok |-> FALSE]

Returned(op, res, val) == [pc |-> "idle", op |-> op, res |-> res, val |-> val]

\* interpreters.is_running(intno)
IsRunning == exec.pc = "child"

\* _BufferedInterpreter.done
WorkerDone(w, flag) ==
    \/ w.exception # 0
    \/ w.cached # 0
    \/ (w.channel = "open" /\ flag # 0)

\* _BufferedInterpreter.result up to the join of the thread: the outcome,
\* and whether the thread is joined and the value cached
WorkerResult(w, flag) ==
    IF ~WorkerDone(w, flag) THEN [res |-> "NotCompleted", val |-> 0, read |-> FALSE]
    ELSE IF w.exception # 0 THEN [res |-> "Failed", val |-> 0, read |-> FALSE]
    ELSE IF w.cached # 0 THEN [res |-> "ok", val |-> w.cached, read |-> FALSE]
    ELSE IF flag = Garbage
         THEN [res |-> "UnpicklingError", val |-> 0, read |-> FALSE]
    ELSE [res |-> "ok", val |-> flag, read |-> TRUE]

\* the end of result: thread.join() has returned
Joined(w, val) == [w EXCEPT !.thread = "none", !.cached = val]

\* BaseInterpreter.start, SimpleInterpreter.start without a target
WorkerStart ==
    /\ caller.pc = "idle" /\ ~worker.gone
    /\ worker.starts < MaxStarts
    /\ IF worker.intno # 0
       THEN /\ caller' = Returned("start", "RuntimeError", 0)
            /\ worker' = [worker EXCEPT !.starts = @ + 1]
            /\ UNCHANGED <<running_interpreters, interpreterList, retFlag>>
       ELSE LET new == worker.starts + 1 IN
            /\ worker' = [worker EXCEPT !.intno = new, !.id = new,
                              !.thread = "none", !.channel = "open",
                              !.starts = @ + 1]
            /\ running_interpreters' = running_interpreters \cup {new}
            /\ interpreterList' = interpreterList \cup {new}
            /\ retFlag' = 0
            /\ caller' = Returned("start", "ok", 0)
    /\ UNCHANGED <<exec, wlog, notWorker>>

\* BaseInterpreter.run_in_thread: the thread is started and will call execute
RunInThread(a) ==
    /\ caller.pc = "idle" /\ ~worker.gone
    /\ exec.pc = "idle"
    /\ worker.calls < MaxCalls
    /\ LET k == worker.calls + 1 IN
       /\ worker' = [worker EXCEPT !.thread = "alive", !.calls = k]
       /\ exec' = [pc |-> "begin", by |-> "thread", call |-> k, arg |-> a]
       /\ wlog' = [wlog EXCEPT ![k] = [NoLog EXCEPT !.arg = a,
                                                   !.verdict = "pending"]]
    /\ caller' = Returned("run_in_thread", "ok", 0)
    /\ UNCHANGED <<running_interpreters, interpreterList, retFlag, notWorker>>

\* BaseInterpreter.run: execute in the calling thread, then result
Run(a) ==
    /\ caller.pc = "idle" /\ ~worker.gone
    /\ exec.pc = "idle"
    /\ worker.calls < MaxCalls
    /\ LET k == worker.calls + 1 IN
       /\ worker' = [worker EXCEPT !.calls = k]
       /\ exec' = [pc |-> "begin", by |-> "caller", call |-> k, arg |-> a]
       /\ wlog' = [wlog EXCEPT ![k] = [NoLog EXCEPT !.arg = a,
                                                   !.verdict = "pending"]]
    /\ caller' = [IdleCaller EXCEPT !.pc = "run", !.op = "run"]
    /\ UNCHANGED <<running_interpreters, interpreterList, retFlag, notWorker>>

\* execute raises: its thread ends, or run raises in the caller
ExecuteRaises(w, res, verdict, wrote) ==
    /\ exec' = NoCall
    /\ wlog' = [wlog EXCEPT ![exec.call].verdict = verdict,
                            ![exec.call].wrote = wrote]
    /\ IF exec.by = "thread"
       THEN /\ worker' = [w EXCEPT !.thread =
                              IF @ = "alive" THEN "finished" ELSE @]
            /\ UNCHANGED caller
       ELSE /\ worker' = w
            /\ caller' = Returned("run", res, 0)

\* SimpleInterpreter.execute up to the call of run_string
Execute ==
    /\ exec.pc = "begin"
    /\ IF worker.intno = 0
       THEN /\ ExecuteRaises(worker, "NotStarted", "error", FALSE)
            /\ UNCHANGED retFlag
       ELSE IF worker.channel # "open"
       THEN /\ ExecuteRaises(worker, "TypeError", "error", FALSE)
            /\ UNCHANGED retFlag
       ELSE LET w == [worker EXCEPT !.exception = 0, !.cached = 0] IN
            IF PayloadRejected(exec.arg)
            THEN /\ retFlag' = IF DumpReachesReturn(exec.arg)
                               THEN Garbage ELSE 0
                 /\ ExecuteRaises(w, "PayloadTooLarge", "rejected",
                                  DumpReachesReturn(exec.arg))
            ELSE /\ retFlag' = 0
                 /\ worker' = w
                 /\ exec' = [exec EXCEPT !.pc = "child"]
                 /\ wlog' = [wlog EXCEPT ![exec.call].verdict = "accepted",
                                         ![exec.call].ran = TRUE]
                 /\ UNCHANGED caller
    /\ UNCHANGED <<running_interpreters, interpreterList, notWorker>>

\* run_string returns: _call has pickled the result into the return region,
\* or the code of the child failed; run goes on with result()
ExecuteReturns(ok) ==
    /\ exec.pc = "child"
    /\ exec' = NoCall
    /\ wlog' = [wlog EXCEPT ![exec.call].ok = ok]
    /\ retFlag' = IF ok /\ worker.channel = "open" THEN exec.call ELSE retFlag
    /\ LET w1 == [worker EXCEPT
                     !.exception = IF ok THEN @ ELSE exec.call,
                     !.thread = IF exec.by = "thread" /\ @ = "alive"
                                THEN "finished" ELSE @]
           r == IF ok THEN WorkerResult(w1, retFlag')
                ELSE [res |-> "ChildError", val |-> 0, read |-> FALSE]
       IN IF exec.by = "thread"
          THEN /\ worker' = w1
               /\ UNCHANGED caller
          ELSE /\ worker' = IF r.read THEN Joined(w1, r.val) ELSE w1
               /\ caller' = Returned("run", r.res, r.val)
    /\ UNCHANGED <<running_interpreters, interpreterList, notWorker>>

\* _BufferedInterpreter.done
DoneCall ==
    /\ caller.pc = "idle" /\ ~worker.gone
    /\ worker.channel # "unset"
    /\ caller' = Returned("done", IF WorkerDone(worker, retFlag) THEN "true"
                                  ELSE "false", 0)
    /\ UNCHANGED <<worker, running_interpreters, interpreterList, retFlag,
                   exec, wlog, notWorker>>

\* _BufferedInterpreter.result, up to thread.join()
ResultCall ==
    /\ caller.pc = "idle" /\ ~worker.gone
    /\ worker.channel # "unset"
    /\ LET r == WorkerResult(worker, retFlag) IN
       IF r.read /\ worker.thread = "alive"
       THEN /\ caller' = [pc |-> "join", op |-> "result", res |-> "none",
                          val |-> r.val]
            /\ UNCHANGED worker
       ELSE /\ caller' = Returned("result", r.res, r.val)
            /\ worker' = IF r.read THEN Joined(worker, r.val) ELSE worker
    /\ UNCHANGED <<running_interpreters, interpreterList, retFlag, exec,
                   wlog, notWorker>>

\* a close that looks the worker up by intno after it has been set to None
CloseKeepsListed(w) ==
    LET w1 == [w EXCEPT !.channel = "closed", !.closes = @ + 1] IN
    IF w.intno = 0 \/ IsRunning
    THEN /\ worker' = w1
         /\ caller' = Returned("close", IF w.intno = 0 THEN "TypeError"
                                        ELSE "aborted", 0)
         /\ UNCHANGED <<running_interpreters, interpreterList>>
    ELSE /\ worker' = [w1 EXCEPT !.intno = 0, !.thread = "none"]
         /\ interpreterList' = interpreterList \ {w.intno}
         /\ running_interpreters' = running_interpreters \ {0}
         /\ caller' = Returned("close", "closed", 0)

\* BaseInterpreter.close, with _BufferedInterpreter._close_channel
CloseChannelAndInterpreter(w) ==
    LET w1 == [w EXCEPT !.channel = "closed", !.closes = @ + 1] IN
    IF w.intno = 0
    THEN /\ worker' = w1
         /\ caller' = Returned("close", "TypeError", 0)
         /\ UNCHANGED <<running_interpreters, interpreterList>>
    ELSE IF IsRunning
    THEN /\ worker' = w1
         /\ caller' = Returned("close", "aborted", 0)
         /\ UNCHANGED <<running_interpreters, interpreterList>>
    ELSE /\ worker' = [w1 EXCEPT !.intno = 0, !.thread = "none"]
         /\ interpreterList' = interpreterList \ {w.intno}
         /\ running_interpreters' = running_interpreters \ {w.id}
         /\ caller' = Returned("close", "closed", 0)

\* SimpleInterpreter.close: cache the result if there is one, then close
CloseCall ==
    /\ caller.pc = "idle" /\ ~worker.gone
    /\ worker.channel # "unset"
    /\ worker.closes < MaxWorkerCloses
    /\ LET r == WorkerResult(worker, retFlag) IN
       IF r.read /\ worker.thread = "alive"
       THEN /\ caller' = [pc |-> "join", op |-> "close", res |-> "none",
                          val |-> r.val]
            /\ UNCHANGED <<worker, running_interpreters, interpreterList>>
       ELSE CloseChannelAndInterpreter(
                IF r.read THEN Joined(worker, r.val) ELSE worker)
    /\ UNCHANGED <<retFlag, exec, wlog, notWorker>>

\* thread.join() returns inside result: the value read before is cached
ResultJoined ==
    /\ caller.pc = "join"
    /\ worker.thread # "alive"
    /\ IF caller.op = "result"
       THEN /\ worker' = Joined(worker, caller.val)
            /\ caller' = Returned("result", "ok", caller.val)
            /\ UNCHANGED <<running_interpreters, interpreterList>>
       ELSE CloseChannelAndInterpreter(Joined(worker, caller.val))
    /\ UNCHANGED <<retFlag, exec, wlog, notWorker>>

\* BaseInterpreter.__del__ when the last reference goes: a running call
\* keeps one, so the child is idle; the weak registry loses the entry
Dropped ==
    /\ caller.pc = "idle" /\ ~worker.gone
    /\ exec.pc = "idle"
    /\ worker.channel # "unset"
    /\ LET r == WorkerResult(worker, retFlag)
           w1 == IF r.read THEN Joined(worker, r.val) ELSE worker
       IN IF worker.intno # 0
          THEN /\ worker' = [w1 EXCEPT !.channel = "closed", !.intno = 0,
                                       !.thread = "none", !.gone = TRUE]
               /\ interpreterList' = interpreterList \ {worker.intno}
          ELSE /\ worker' = [worker EXCEPT !.gone = TRUE]
               /\ UNCHANGED interpreterList
    /\ running_interpreters' = running_interpreters \ {worker.id}
    /\ caller' = Returned("del", "ok", 0)
    /\ UNCHANGED <<retFlag, exec, wlog, notWorker>>

\* a worker that was built and not started
WorkerAtRest ==
    /\ worker = NewWorker
    /\ running_interpreters = {}
    /\ interpreterList = {}
    /\ retFlag = 0
    /\ exec = NoCall
    /\ caller = IdleCaller
    /\ wlog = [k \in CallIds |-> NoLog]

(***************************************************************************)
(* QUEUE OVER THE BOARD OF SEVERAL PRODUCERS: Queue.put and Queue.get of   *)
(* queue.py over new_item and fetch_item above.  obProc[i].gone is         *)
(* _buffer._items_closed_interpreters of interpreter i.  The pipe is       *)
(* always writable, and the deque of a consumer holds nothing between two  *)
(* calls of get, since every get pops what its _fetch appended.            *)
(***************************************************************************)
NoQueueCall == [pc |-> "idle", block |-> FALSE, res |-> "none", val |-> <<>>]

\* _PipeBase.read(1), queue.py:97-104: one byte is read if there is one
ReadOne(n) == IF n > 0 THEN n - 1 ELSE 0

\* Queue.put, queue.py:534-537, up to the call of new_item
OwnedPut(i) ==
    /\ i \in obLive /\ oqCall[i].pc = "idle" /\ obProc[i].pc = "idle"
    /\ obProc[i].nops < MaxOwnedOps
    /\ oqCall' = [oqCall EXCEPT ![i] = [NoQueueCall EXCEPT !.pc = "put"]]
    /\ obProc' = [obProc EXCEPT ![i].res = "none"]
    /\ UNCHANGED <<oqPipe, obSlot, obLive, obAnchors, obFreed, notOwnedQueue>>

\* Queue.put, queue.py:538-540, after new_item: the signal byte is written;
\* the ValueError of a full board leaves put before that
OwnedSignal(i) ==
    /\ oqCall[i].pc = "put" /\ obProc[i].pc = "idle" /\ obProc[i].res # "none"
    /\ IF obProc[i].res = "ok"
       THEN /\ oqPipe' = oqPipe + 1
            /\ oqCall' = [oqCall EXCEPT ![i] = [@ EXCEPT !.pc = "idle", !.res = "ok"]]
       ELSE /\ oqCall' = [oqCall EXCEPT ![i] =
                  [@ EXCEPT !.pc = "idle", !.res = "BoardFull"]]
            /\ UNCHANGED oqPipe
    /\ UNCHANGED <<ownedVars, notOwnedQueue>>

\* Queue.get, queue.py:510-532, up to the call of fetch_item: without a byte
\* in the pipe the select fails (at once, or when the timeout of a blocking
\* get is over) and get raises
OwnedGet(i, b) ==
    /\ i \in obLive /\ oqCall[i].pc = "idle" /\ obProc[i].pc = "idle"
    /\ obProc[i].nops < MaxOwnedOps
    /\ IF oqPipe > 0
       THEN /\ oqCall' = [oqCall EXCEPT ![i] =
                  [NoQueueCall EXCEPT !.pc = "get", !.block = b]]
            /\ obProc' = [obProc EXCEPT ![i].res = "none"]
       ELSE /\ oqCall' = [oqCall EXCEPT ![i] =
                  [NoQueueCall EXCEPT !.block = b,
                                      !.res = IF b THEN "Timeout" ELSE "Empty"]]
            /\ UNCHANGED obProc
    /\ UNCHANGED <<oqPipe, obSlot, obLive, obAnchors, obFreed, notOwnedQueue>>

\* Queue._fetch after fetch_item, queue.py:496-508, and the end of Queue.get,
\* 528-532.  With an item one byte is read and the item returned.  With None
\* and a positive counter, the counter goes down, one byte is read, and
\* _fetch returns: get then finds its deque empty and raises.
OwnedFetched(i) ==
    /\ oqCall[i].pc = "get" /\ obProc[i].pc = "idle" /\ obProc[i].res # "none"
    /\ LET r == oqCall[i]
           failed == IF r.block THEN "Timeout" ELSE "Empty"
       IN IF obProc[i].res = "item"
          THEN /\ oqPipe' = ReadOne(oqPipe)
               /\ oqCall' = [oqCall EXCEPT ![i] =
                     [r EXCEPT !.pc = "idle", !.res = "item", !.val = obProc[i].val]]
               /\ UNCHANGED obProc
          ELSE /\ oqCall' = [oqCall EXCEPT ![i] =
                     [r EXCEPT !.pc = "idle", !.res = failed]]
               /\ IF obProc[i].gone > 0
                  THEN /\ obProc' = [obProc EXCEPT ![i].gone = @ - 1]
                       /\ oqPipe' = ReadOne(oqPipe)
                  ELSE UNCHANGED <<obProc, oqPipe>>
    /\ UNCHANGED <<obSlot, obLive, obAnchors, obFreed, notOwnedQueue>>

\* Queue() in the origin, unpickled in the other interpreters
OwnedQueueAtRest ==
    /\ oqPipe = 0
    /\ oqCall = [i \in Posters |-> NoQueueCall]

(***************************************************************************)
(* SELECTOR: EISelector.select of resources.py.  One callback is           *)
(* registered for each file descriptor and is named by it.  A callback     *)
(* returns, raises an Exception, or calls select itself before that.  Time *)
(* is counted in rounds of the while loop: a round that has events takes   *)
(* one unit, a round without events lasts until the timeout is over, and   *)
(* without a timeout the OS call waits for an event.                       *)
(***************************************************************************)
Fds == 1 .. NFds

\* what one call of selector.select can return: the ready descriptors in
\* some order, or nothing
Rounds == {<<>>} \cup {<<f>> : f \in Fds}
              \cup {x \in Fds \X Fds : x[1] # x[2]}

SelTimeouts == {NoTimeout} \cup (0 .. MaxTimeout)

NoSelect == [target |-> NoFd, timeout |-> NoTimeout, fired |-> 0, depth |-> 0]

TopFrame == frames[Len(frames)]

SetTopFrame(fr) == [frames EXCEPT ![Len(frames)] = fr]

\* the test of the while loop, resources.py:70-72
LoopGoesOn(fr) ==
    /\ fr.target = NoFd \/ ~fr.reached
    /\ fr.timeout = NoTimeout \/ fr.ellapsed <= fr.timeout

\* select(timeout, target_fd), resources.py:52-69, called by the application
\* or by the callback that is running
SelectCall(t, f) ==
    /\ selCalls < MaxSelects
    /\ IF frames = <<>> THEN TRUE ELSE TopFrame.pc = "callback"
    /\ selCalls' = selCalls + 1
    /\ select_depth' = select_depth + 1
    /\ entered_callbacks' = IF select_depth' = 1 THEN {} ELSE entered_callbacks
    /\ frames' = Append(frames,
          [target |-> f, timeout |-> t, reached |-> FALSE, ellapsed |-> 0,
           pc |-> "while", todo |-> <<>>, waited |-> FALSE, rounds |-> 0,
           fired |-> 0,
           warned |-> 0, cb |-> NoFd, before |-> select_depth])
    /\ UNCHANGED <<selLast, notSelector>>

\* resources.py:70-73 and 95: the while test, then either the call of
\* selector.select or the end of select
SelectWhile ==
    /\ frames # <<>> /\ TopFrame.pc = "while"
    /\ IF LoopGoesOn(TopFrame)
       THEN /\ \E x \in Rounds :
                  /\ IF x = <<>> THEN TopFrame.timeout # NoTimeout
                                 ELSE TopFrame.rounds < MaxRounds
                  /\ frames' = SetTopFrame(
                        [TopFrame EXCEPT !.pc = "for", !.todo = x,
                                         !.waited = (x = <<>>),
                                         !.rounds = IF x = <<>> THEN @ ELSE @ + 1])
            /\ UNCHANGED <<select_depth, selLast>>
       ELSE /\ select_depth' = select_depth - 1
            /\ frames' = SubSeq(frames, 1, Len(frames) - 1)
            /\ selLast' = [target |-> TopFrame.target, timeout |-> TopFrame.timeout,
                           fired |-> TopFrame.fired, depth |-> Len(frames)]
    /\ UNCHANGED <<entered_callbacks, selCalls, notSelector>>

\* resources.py:75-82 and 90-93: the next callback of the round is skipped
\* or entered; after the last one the time of the round is added up
SelectFor ==
    /\ frames # <<>> /\ TopFrame.pc = "for"
    /\ IF TopFrame.todo = <<>>
       THEN /\ frames' = SetTopFrame([TopFrame EXCEPT !.pc = "while",
                 !.ellapsed = IF TopFrame.waited /\ TopFrame.timeout >= @
                              THEN TopFrame.timeout + 1 ELSE @ + 1])
            /\ UNCHANGED entered_callbacks
       ELSE LET k == Head(TopFrame.todo) IN
            IF k \in entered_callbacks
            THEN /\ frames' = SetTopFrame([TopFrame EXCEPT !.todo = Tail(@)])
                 /\ UNCHANGED entered_callbacks
            ELSE /\ entered_callbacks' = entered_callbacks \cup {k}
                 /\ frames' = SetTopFrame([TopFrame EXCEPT !.todo = Tail(@),
                       !.reached = @ \/ k = TopFrame.target,
                       !.fired = @ + 1, !.pc = "callback", !.cb = k])
    /\ UNCHANGED <<select_depth, selCalls, selLast, notSelector>>

\* resources.py:83-89: the callback returns or raises an Exception, which
\* becomes a warning
CallbackEnds(raised) ==
    /\ frames # <<>> /\ TopFrame.pc = "callback"
    /\ entered_callbacks' = entered_callbacks \ {TopFrame.cb}
    /\ frames' = SetTopFrame([TopFrame EXCEPT !.pc = "for", !.cb = NoFd,
                                    !.warned = IF raised THEN @ + 1 ELSE @])
    /\ UNCHANGED <<select_depth, selCalls, selLast, notSelector>>

\* EISelector(), resources.py:20-22
SelectorAtRest ==
    /\ select_depth = 0
    /\ entered_callbacks = {}
    /\ frames = <<>>
    /\ selCalls = 0
    /\ selLast = NoSelect

(***************************************************************************)
(* The specifications.                                                     *)
(***************************************************************************)
LockInit ==
    /\ lockByte = 0
    /\ entered = [v \in Views |-> 0]
    /\ kind \in Kinds
    /\ viewOf \in Topologies
    /\ menu = BOOLEAN \X Timeouts
    /\ th = [t \in Threads |-> IdleThread]
    /\ QueueAtRest
    /\ RAAtRest
    /\ AccessAtRest
    /\ PipeAtRest
    /\ OwnedAtRest
    /\ WorkerAtRest
    /\ OwnedQueueAtRest
    /\ SelectorAtRest

LockNext ==
    \/ \E t \in Threads : StartAcquire(t)
    \/ \E t \in Threads : StartRelease(t)
    \/ \E t \in Threads : StartLocked(t)
    \/ \E t \in Threads : StepLocked(t)
    \/ \E t \in Threads : StepAcquireEnter(t)
    \/ \E t \in Threads : StepAtomicByteLock(t)
    \/ \E t \in Threads : StepAcquired(t)
    \/ \E t \in Threads : StepBusy(t)
    \/ \E t \in Threads : StepWait(t)
    \/ \E t \in Threads : StepRelease(t)
    \/ \E t \in Threads : StepReleaseByte(t)
    \/ \E t \in Threads : StepLockLoop(t)

SpecLock == LockInit /\ [][LockNext]_vars

\* three threads of one interpreter share one Lock object and try to take it
Lock3Init ==
    /\ lockByte = 0
    /\ entered = [v \in Views |-> 0]
    /\ kind = "Lock"
    /\ viewOf = <<1, 1, 1>>
    /\ menu = {<<FALSE, -1>>}
    /\ th = [t \in 1..3 |-> IdleThread]
    /\ QueueAtRest
    /\ RAAtRest
    /\ AccessAtRest
    /\ PipeAtRest
    /\ OwnedAtRest
    /\ WorkerAtRest
    /\ OwnedQueueAtRest
    /\ SelectorAtRest

Lock3Next ==
    \/ \E t \in Threads : StartAcquire(t)
    \/ \E t \in Threads : StartRelease(t)
    \/ \E t \in Threads : StepLocked(t)
    \/ \E t \in Threads : StepAcquireEnter(t)
    \/ \E t \in Threads : StepAtomicByteLock(t)
    \/ \E t \in Threads : StepAcquired(t)
    \/ \E t \in Threads : StepBusy(t)
    \/ \E t \in Threads : StepRelease(t)
    \/ \E t \in Threads : StepReleaseByte(t)
    \/ \E t \in Threads : StepLockLoop(t)

SpecLock3 == Lock3Init /\ [][Lock3Next]_vars

\* Queue(size) in the origin, unpickled in one or in two other interpreters
QueueInit ==
    /\ slotState = [o \in Slots |-> NOT_INITIALIZED]
    /\ slotLock = [o \in Slots |-> 0]
    /\ contentAddress = [o \in Slots |-> 0]
    /\ blocks = [o \in Slots |-> 0]
    /\ signalPipe = 0
    /\ queueSize \in QueueSizes
    /\ producer = IdleProducer
    /\ \E n \in 1..2 :
          /\ consumer = [c \in 1..n |-> IdleConsumer]
          /\ delivered = [c \in 1..n |-> <<>>]
    /\ LockAtRest
    /\ RAAtRest
    /\ AccessAtRest
    /\ PipeAtRest
    /\ OwnedAtRest
    /\ WorkerAtRest
    /\ OwnedQueueAtRest
    /\ SelectorAtRest

QueueNext ==
    \/ StartPut
    \/ PutScan
    \/ PutReclaim
    \/ PutCheck
    \/ PutCas
    \/ PutBuild
    \/ PutFill
    \/ PutReady
    \/ PutUnlock
    \/ PutSignal
    \/ \E c \in Consumers : StartGet(c)
    \/ \E c \in Consumers : FetchScan(c)
    \/ \E c \in Consumers : FetchCas(c)
    \/ \E c \in Consumers : FetchOwn(c)
    \/ \E c \in Consumers : FetchUnlock(c)
    \/ \E c \in Consumers : FetchLoad(c)
    \/ \E c \in Consumers : FetchGarbage(c)
    \/ \E c \in Consumers : GetAck(c)
    \/ \E c \in Consumers : GetRead(c)

SpecQueue == QueueInit /\ [][QueueNext]_vars

\* the board of a Queue() on which the origin also calls collect and del
BoardInit == QueueInit /\ queueSize = NoMaxLen

BoardNext ==
    \/ producer.nput < MaxBoardPuts /\ StartPut
    \/ PutScan
    \/ PutReclaim
    \/ PutCheck
    \/ PutCas
    \/ PutBuild
    \/ PutFill
    \/ PutReady
    \/ PutUnlock
    \/ PutSignal
    \/ CollectScan
    \/ CollectSweep
    \/ CollectCount
    \/ \E o \in Slots : DelItemCheck(o)
    \/ DelItem
    \/ \E c \in Consumers : consumer[c].ngets < MaxBoardGets /\ StartGet(c)
    \/ \E c \in Consumers : FetchScan(c)
    \/ \E c \in Consumers : FetchCas(c)
    \/ \E c \in Consumers : FetchOwn(c)
    \/ \E c \in Consumers : FetchUnlock(c)
    \/ \E c \in Consumers : FetchLoad(c)
    \/ \E c \in Consumers : FetchGarbage(c)
    \/ \E c \in Consumers : GetAck(c)
    \/ \E c \in Consumers : GetRead(c)

SpecBoard == BoardInit /\ [][BoardNext]_vars

\* LockableBoard() in the origin, unpickled in the other interpreters
OwnedInit ==
    /\ OwnedAtRest
    /\ WorkerAtRest
    /\ OwnedQueueAtRest
    /\ SelectorAtRest
    /\ LockAtRest
    /\ QueueAtRest
    /\ RAAtRest
    /\ AccessAtRest
    /\ PipeAtRest

OwnedNext ==
    \/ \E i \in Posters : OwnedNewItem(i)
    \/ \E i \in Posters : OwnedPublish(i)
    \/ \E i \in Posters : OwnedDie(i)
    \/ \E i \in Posters : OwnedFetchScan(i)
    \/ \E i \in Posters : OwnedFetchCas(i)
    \/ \E i \in Posters : OwnedFetchOwner(i)
    \/ \E i \in Posters : OwnedFetchRead(i)
    \/ OwnedCollect

SpecOwnedBoard == OwnedInit /\ [][OwnedNext]_vars

\* a queue that the origin and its children put on and get from; a child
\* is closed between its calls
OwnedQueueNext ==
    \/ \E i \in Posters : OwnedPut(i)
    \/ \E i \in Posters :
          oqCall[i].pc = "put" /\ obProc[i].res = "none" /\ OwnedNewItem(i)
    \/ \E i \in Posters : OwnedPublish(i)
    \/ \E i \in Posters : OwnedSignal(i)
    \/ \E i \in Posters : \E b \in BOOLEAN : OwnedGet(i, b)
    \/ \E i \in Posters :
          oqCall[i].pc = "get" /\ obProc[i].res = "none" /\ OwnedFetchScan(i)
    \/ \E i \in Posters : OwnedFetchCas(i)
    \/ \E i \in Posters : OwnedFetchOwner(i)
    \/ \E i \in Posters : OwnedFetchRead(i)
    \/ \E i \in Posters : OwnedFetched(i)
    \/ \E i \in Posters : oqCall[i].pc = "idle" /\ OwnedDie(i)

SpecOwnedQueue == OwnedInit /\ [][OwnedQueueNext]_vars

\* Interpreter() in the main interpreter
WorkerInit ==
    /\ WorkerAtRest
    /\ OwnedQueueAtRest
    /\ SelectorAtRest
    /\ LockAtRest
    /\ QueueAtRest
    /\ RAAtRest
    /\ AccessAtRest
    /\ PipeAtRest
    /\ OwnedAtRest

WorkerNext ==
    \/ WorkerStart
    \/ \E a \in ArgLens : RunInThread(a)
    \/ \E a \in ArgLens : Run(a)
    \/ Execute
    \/ \E ok \in BOOLEAN : ExecuteReturns(ok)
    \/ DoneCall
    \/ ResultCall
    \/ ResultJoined
    \/ CloseCall
    \/ Dropped

SpecWorker == WorkerInit /\ [][WorkerNext]_vars

\* RemoteArray(...) in the origin, sent to other interpreters
RAInit ==
    /\ RAAtRest
    /\ LockAtRest
    /\ QueueAtRest
    /\ AccessAtRest
    /\ PipeAtRest
    /\ OwnedAtRest
    /\ WorkerAtRest
    /\ OwnedQueueAtRest
    /\ SelectorAtRest

RANext ==
    \/ OriginStart
    \/ OriginGetState
    \/ GetStateLocked
    \/ SetState
    \/ TtlExpires
    \/ \E i \in Copies : ChildStart(i)
    \/ \E i \in Copies : EnterChildLock(i)
    \/ \E i \in Copies : EnterChild(i)
    \/ \E i \in Copies : ChildClose(i)
    \/ \E i \in Copies : ChildCloseLocked(i)
    \/ OriginClose
    \/ Collector
    \/ CloseLocked
    \/ FinishClose

SpecRemoteArray == RAInit /\ [][RANext]_vars

\* The same with collections that keep coming: the sweep of _collector runs
\* again and again, a close that has taken the header lock goes on to its
\* end, and a copy that holds the header lock gives it back.
RemoteArrayFairness ==
    /\ WF_vars(Collector)
    /\ WF_vars(CloseLocked)
    /\ WF_vars(FinishClose)
    /\ WF_vars(\E i \in Copies : EnterChild(i))
    /\ WF_vars(\E i \in Copies : ChildCloseLocked(i))

SpecRemoteArrayLive == RAInit /\ [][RANext]_vars /\ RemoteArrayFairness

\* the same remote array, with reads and writes of its data
AccessNext ==
    \/ OriginStart
    \/ OriginGetState
    \/ GetStateLocked
    \/ SetState
    \/ TtlExpires
    \/ \E i \in Copies : ChildStart(i)
    \/ \E i \in Copies : EnterChildLock(i)
    \/ \E i \in Copies : EnterChild(i)
    \/ \E i \in Copies : ChildClose(i)
    \/ \E i \in Copies : ChildCloseLocked(i)
    \/ OriginClose
    \/ Collector
    \/ CloseLocked
    \/ FinishClose
    \/ \E i \in Copies : ChildGetItem(i)
    \/ \E i \in Copies : ChildSetItem(i)
    \/ \E i \in Copies : \E op \in StreamOps : ChildStream(i, op)
    \/ \E i \in Copies : ChildAccessLocked(i)
    \/ OriginGetItem
    \/ OriginSetItem
    \/ \E op \in StreamOps : OriginStream(op)
    \/ OriginAccessLocked

SpecRemoteArrayAccess == RAInit /\ [][AccessNext]_vars

\* the pipe of interpreter 1, sent to the other interpreters
PipeInit ==
    /\ PipeAtRest
    /\ OwnedAtRest
    /\ WorkerAtRest
    /\ OwnedQueueAtRest
    /\ SelectorAtRest
    /\ LockAtRest
    /\ QueueAtRest
    /\ RAAtRest
    /\ AccessAtRest

PipeNext ==
    \/ \E i \in Interps : PipeUnpickle(i)
    \/ \E i \in Interps : PipeEnter(i)
    \/ \E i \in Interps : PipeCountLock(i)
    \/ \E i \in Interps : PipeCount(i)
    \/ \E i \in Interps : \E o \in PipeObjects : PipeClose(i, o)
    \/ \E i \in Interps : PipeCloseLocked(i)

SpecPipe == PipeInit /\ [][PipeNext]_vars

\* EISelector() of one interpreter
SelectorInit ==
    /\ SelectorAtRest
    /\ OwnedQueueAtRest
    /\ WorkerAtRest
    /\ LockAtRest
    /\ QueueAtRest
    /\ RAAtRest
    /\ AccessAtRest
    /\ PipeAtRest
    /\ OwnedAtRest

SelectorNext ==
    \/ \E t \in SelTimeouts : \E f \in Fds \cup {NoFd} : SelectCall(t, f)
    \/ SelectWhile
    \/ SelectFor
    \/ \E raised \in BOOLEAN : CallbackEnds(raised)

SpecSelector == SelectorInit /\ [][SelectorNext]_vars

(***************************************************************************)
(* Properties of the locks.                                                *)
(***************************************************************************)
\* thread t has returned from (or raised out of) its last call
Finished(t) == th[t].stk = <<>> /\ th[t].res # "none"

\* the threads whose acquire returned True more often than they released
Holders == {t \in Threads : th[t].held > 0}

\* thread t is inside the loop of Lock.acquire after at least one sleep
Slept(t) == th[t].stk # <<>> /\ th[t].op = "acquire" /\ ~th[t].first

\* C4: a Lock shared among interpreters and among the threads of one
\* interpreter is held by at most one party at any time: acquire returns True
\* only while no other party holds the lock.
LockMutualExclusion == kind = "Lock" => Cardinality(Holders) <= 1

\* C5: a Lock is not re-entrant: while a thread holds it, a second acquire by
\* the same thread does not return True, so no thread ever holds it twice.
LockNotReentrant == kind = "Lock" => \A t \in Threads : th[t].held <= 1

\* C6: an RLock is re-entrant only for the thread that holds it: two threads
\* of one interpreter, working through the same RLock object, never hold it at
\* the same time.
RLockExcludesOtherThreads ==
    kind = "RLock" =>
        \A t, u \in Threads :
            t # u /\ viewOf[t] = viewOf[u] => ~(th[t].held > 0 /\ th[u].held > 0)

\* C7: acquire(blocking=False), whatever timeout is passed with it, never
\* waits and never raises: it does not sleep, and it returns True or False.
NonBlockingAcquireReturns ==
    \A t \in Threads :
        th[t].op = "acquire" /\ ~th[t].blocking =>
            /\ ~Slept(t)
            /\ Finished(t) => th[t].res \in {"True", "False"}

\* C8: acquire(blocking=True, timeout=t) with t >= 0 returns True, or fails
\* with ResourceBusy when t = 0 and with Timeout when t > 0; it succeeds when
\* no party holds or is taking the lock, and a failed acquire leaves the
\* caller's view of the lock as it was.
BlockingAcquireOutcomes ==
    \A t \in Threads :
        Finished(t) /\ th[t].op = "acquire" /\ th[t].blocking /\ th[t].timeout >= 0 =>
            /\ \/ th[t].res = "True"
               \/ th[t].timeout = 0 /\ th[t].res = "ResourceBusy"
               \/ th[t].timeout > 0 /\ th[t].res = "Timeout"
            /\ th[t].res # "True" =>
                  \E u \in Threads \ {t} : th[u].nops > 0
            /\ th[t].res # "True" /\ (\A u \in Threads \ {t} : viewOf[u] # viewOf[t]) =>
                  entered[viewOf[t]] = th[t].was

\* thread t executes the body of _CrossInterpreterStructLock.release in this
\* step: called by the user's code, or from inside locked() or Lock.acquire
RunsRelease(t) ==
    \/ Top(t) = "R1"
    \/ Top(t) = "idle" /\ th'[t].op = "release" /\ th'[t].nops = th[t].nops + 1

\* C9: release() through a view that does not hold the lock (its count is
\* zero) is a silent no-op: it returns None at once and changes neither the
\* shared lock byte nor any count, also while another view holds the lock.
ReleaseNotHeldIsNoOp ==
    [][\A t \in Threads :
          RunsRelease(t) /\ entered[viewOf[t]] = 0 =>
              /\ lockByte' = lockByte
              /\ entered' = entered
              /\ th'[t].stk = <<>> \/ Head(th'[t].stk) # "R2"
              /\ th[t].stk = <<>> => th'[t].stk = <<>> /\ th'[t].res = "None"]_vars

\* a thread that held nothing has called release and got None while the other
\* interpreter holds the lock
ReleaseNotHeldWitness ==
    \E t, u \in Threads :
        /\ viewOf[u] # viewOf[t]
        /\ Finished(t) /\ th[t].op = "release" /\ th[t].was = 0 /\ th[t].res = "None"
        /\ th[u].held > 0 /\ Finished(u)
        /\ lockByte = 1 /\ entered[viewOf[u]] = 1 /\ entered[viewOf[t]] = 0

(***************************************************************************)
(* Properties of the queue.                                                *)
(***************************************************************************)
\* how many get calls, of any consumer, have returned value v
Deliveries(v) ==
    Cardinality({ci \in Consumers \X (1..MaxGets) :
                    /\ ci[2] <= Len(delivered[ci[1]])
                    /\ delivered[ci[1]][ci[2]] = v})

\* no put and no get is in progress
QueueQuiet == producer.pc = "idle" /\ \A c \in Consumers : consumer[c].pc = "idle"

\* the values a put has posted and no get has returned
Undelivered == {v \in producer.posted : Deliveries(v) = 0}

\* a get can still fetch value v: it sits in a READY slot whose payload is alive
Fetchable(v) ==
    \E o \in Slots : slotState[o] = READY /\ contentAddress[o] = v /\ blocks[o] = v

\* C1: a value posted by one put is returned by at most one get, whichever
\* consumers compete for its slot.
NoDuplicateDelivery == \A v \in 1..MaxPuts : Deliveries(v) <= 1

\* C2: no posted value is discarded or left un-fetchable: whenever no call is
\* in progress, every value that was put and not yet returned sits in a READY
\* slot, and the signal pipe holds a byte for each of them, so that the get
\* calls to come return it.
NoLoss ==
    QueueQuiet =>
        /\ \A v \in Undelivered : Fetchable(v)
        /\ Cardinality(Undelivered) <= signalPipe

\* C3: with a single producer and a single consumer the values are returned
\* in the order of the puts, also when a put reuses the slot of a value that
\* was consumed before.
PerProducerOrder ==
    Cardinality(Consumers) = 1 =>
        \A i, j \in 1..Len(delivered[1]) :
            i < j => delivered[1][i] < delivered[1][j]

(***************************************************************************)
(* Properties of the remote array.                                         *)
(***************************************************************************)
\* C10: the header state of a remote array only moves forward along
\* BUILDING -> READY -> SERIALIZED = RECEIVED -> GARBAGE, whatever the origin,
\* the copies and the sweeps do, and never leaves GARBAGE; start() on the
\* origin is accepted exactly in BUILDING and moves to READY; pickling is
\* accepted only in READY, SERIALIZED or RECEIVED and leaves SERIALIZED; a
\* rejected call raises and leaves the state alone, InvalidState when the
\* instance is still open.
RemoteArrayLifecycle ==
    [][ /\ raState' >= raState
        /\ (raState = RS_GARBAGE => raState' = RS_GARBAGE)
        /\ (OriginStart =>
               /\ (raLast'.res = "ok") = (raState = RS_BUILDING)
               /\ (raLast'.res = "ok" => raState' = RS_READY)
               /\ (raLast'.res # "ok" =>
                      /\ raState' = raState
                      /\ raLast'.res \in {"InvalidState", "BufferNotReady"}
                      /\ (origin.dataState # "not_ready"
                            => raLast'.res = "InvalidState")))
        /\ (OriginGetState =>
               /\ raState' = raState
               /\ (raLock' = raLock =>
                      raLast'.res \in {"BufferNotReady", "Timeout"}))
        /\ (GetStateLocked =>
               /\ (raLast'.res = "ok" =>
                      /\ raState \in {RS_READY, RS_SERIALIZED, RS_RECEIVED}
                      /\ raState' = RS_SERIALIZED)
               /\ (raLast'.res # "ok" => raState' = raState)
               /\ (raState \in {RS_BUILDING, RS_GARBAGE}
                     => raLast'.res = "InvalidState"))
      ]_vars

\* the buffer went through a copy's start and close to GARBAGE, and the origin
\* then tried to pickle it again
RemoteArrayLifecycleWitness ==
    /\ raState = RS_GARBAGE
    /\ enterCount > 0
    /\ exitCount > 0
    /\ raLast.who = 0
    /\ raLast.op = "pickle"
    /\ raLast.res # "ok"

\* copy i has started the buffer and not closed it since
Attached(i) == copies[i].entered > copies[i].exited

\* C11: a remote array that has been pickled becomes GARBAGE, and its memory
\* is released, only when the time-to-live of its last pickling has run out
\* and exit_count >= enter_count: never while a copy has started it and not
\* closed it, and never before the time-to-live has run out.
ReleaseOnlyWhenDone ==
    [][ (pickles > 0 /\ (\/ raState # RS_GARBAGE /\ raState' = RS_GARBAGE
                         \/ raAlive /\ ~raAlive'))
        => /\ ~CheckTtl(pickles)
           /\ exitCount >= enterCount
           /\ \A i \in Copies : ~Attached(i)
      ]_vars

\* the buffer was pickled, started and closed by a copy, and then released
ReleaseOnlyWhenDoneWitness ==
    /\ ~raAlive
    /\ pickles > 0
    /\ enterCount > 0
    /\ exitCount = enterCount

\* C12: the time-to-live bounds the pinning: once the time-to-live of a
\* pickled remote array has run out, the locked section of the origin's
\* close(), or of a sweep of limbo, marks the buffer GARBAGE whatever the
\* counters say, also when a copy has started it and never closed it.
TtlBoundsPinning ==
    [][CloseLocked /\ pickles > 0 /\ ~CheckTtl(pickles)
          => raState' = RS_GARBAGE]_vars

\* the time-to-live of copy i, counted from the pickling it came from, is over
TtlOver(i) == copies[i].pickle <= expired

\* copy i can read and write the data through its instance
HasAccess(i) == copies[i].data = "mapped" /\ copies[i].dataState = "read_write"

\* C13: start() on an unpickled copy whose time-to-live has run out, at the
\* call or by the time the copy holds the header lock, fails with
\* TTLExceeded, leaves enter_count and the header state as they were and
\* gives the copy no access to the data.
ExpiredCopyCannotStart ==
    [][\A i \in Copies :
          (ChildStart(i) \/ EnterChild(i)) /\ TtlOver(i) =>
              /\ raLast' = Last(i, "start", "TTLExceeded")
              /\ enterCount' = enterCount
              /\ raState' = raState
              /\ ~HasAccess(i) => ~(HasAccess(i))'
      ]_vars

\* a copy that never started the buffer was refused for its time-to-live,
\* while the origin still keeps the buffer
ExpiredCopyCannotStartWitness ==
    \E i \in Copies :
        /\ raLast = Last(i, "start", "TTLExceeded")
        /\ copies[i].entered = 0
        /\ copies[i].data = "none"
        /\ raAlive
        /\ raState = RS_SERIALIZED

NoAccessAfterRelease == ~useAfterFree

\* the bytes of the buffer: header, lock byte and data
BufferBytes == <<raState, enterCount, exitCount, raLock, payload>>

\* C16: a read or a write, by item or as a stream, of an instance whose
\* _data_state is not read_write (a copy before its start(), a copy after
\* its close(), the origin after its close()) fails with BufferNotReady and
\* changes no byte of the buffer.
NotReadyAccessRefused ==
    [][/\ \A i \in Copies :
             /\ \/ ChildGetItem(i)
                \/ ChildSetItem(i)
                \/ \E op \in StreamOps : ChildStream(i, op)
             /\ copies[i].dataState # "read_write"
             => /\ raLast'.who = i
                /\ raLast'.res = "BufferNotReady"
                /\ UNCHANGED BufferBytes
       /\ /\ \/ OriginGetItem
             \/ OriginSetItem
             \/ \E op \in StreamOps : OriginStream(op)
          /\ origin.dataState # "read_write"
          => /\ raLast'.who = 0
             /\ raLast'.res = "BufferNotReady"
             /\ UNCHANGED BufferBytes
      ]_vars

\* C17: a second close() raises nothing and changes neither the counters,
\* the header state nor the limbo registry: on the origin, whether its first
\* close() released the buffer or moved it to limbo, and on a copy.
CloseIdempotent ==
    [][/\ OriginClose /\ origin.dataState = "not_ready"
          => /\ raLast' = Last(0, "close", "ok")
             /\ UNCHANGED <<raState, enterCount, exitCount, limbo>>
       /\ \A i \in Copies :
             ChildClose(i) /\ copies[i].exited > 0 /\ ~Attached(i)
             => /\ raLast' = Last(i, "close", "ok")
                /\ UNCHANGED <<raState, enterCount, exitCount, limbo>>
      ]_vars

\* the open pipe objects of interpreter i
LiveIn(i) ==
    {o \in PipeObjects : pipes[o].interp = i /\ pipes[o].stage = "open"}

\* the interpreters that hold the pipe open
Holding == {i \in Interps : LiveIn(i) # {}}

\* C18: unpickling the pipe in an interpreter that has a live pipe object
\* for the same file descriptors returns that object, builds no new one and
\* leaves the shared counter alone: the counter goes up once per
\* interpreter, never for an interpreter that already holds the pipe open.
UnpickleKeepsIdentity ==
    [][\A i \in Interps :
          LiveIn(i) # {} =>
              /\ PipeUnpickle(i) =>
                    /\ pipeLast'.who = i
                    /\ pipeLast'.res = "ok"
                    /\ pipeLast'.obj \in LiveIn(i)
                    /\ pipes' = pipes
                    /\ counter' = counter
              /\ ~PipeCount(i)
      ]_vars

\* C19: the shared counter is the number of interpreters that hold the pipe
\* open, and the file descriptors are open exactly while it is above zero:
\* they are closed by the close() that brings it to zero, in whatever order
\* the interpreters close.
CounterCountsHolders ==
    /\ counter = Cardinality(Holding)
    /\ fdsOpen <=> counter > 0

\* consumer c returns from (or raises out of) Queue.get in this step
GetEnds(c) ==
    /\ consumer'[c].pc = "idle"
    /\ consumer[c].pc # "idle" \/ consumer'[c].ngets # consumer[c].ngets

\* some value whose put has returned sits in a READY slot no consumer has
\* claimed, with its payload alive
Deliverable ==
    \E o \in Slots :
        /\ slotState[o] = READY /\ slotLock[o] = 0
        /\ contentAddress[o] \in producer.posted
        /\ blocks[o] = contentAddress[o]

\* consumer c sits in os.read on an empty signal pipe
WaitsInRead(c) == consumer[c].pc = "read" /\ signalPipe = 0

\* C21: get(block=False) never waits, and it ends in one of two ways: it
\* returns an item, or it raises Empty, and Empty only when the call has
\* fetched nothing and the queue holds no deliverable item; the consumer is
\* then ready for its next call with its deque as it was.
NonBlockingGet ==
    /\ [](\A c \in Consumers : ~consumer[c].block => ~WaitsInRead(c))
    /\ [][\A c \in Consumers :
             GetEnds(c) /\ ~consumer'[c].block =>
                 \/ consumer'[c].res = "item"
                 \/ /\ consumer'[c].res = "Empty"
                    /\ consumer[c].obj = 0
                    /\ ~Deliverable
                    /\ consumer'[c].data = consumer[c].data
       ]_vars

\* C22: get() with block=True and no timeout ends only by returning an item:
\* it stays in its select until the signal pipe has a byte, and it neither
\* raises Empty or Timeout nor fails in another way, whatever the other
\* consumers do.
BlockingGetDelivers ==
    [][\A c \in Consumers :
          GetEnds(c) /\ consumer'[c].block => consumer'[c].res = "item"]_vars

\* the origin returns from (or raises out of) Queue.put in this step
PutEnds == producer.pc # "idle" /\ producer'.pc = "idle"

\* C23: a put that cannot post because the queue is full fails with Full and
\* posts nothing: a put that finds no free slot on the board ends with Full,
\* leaves no slot claimed and writes no signal byte, and no put succeeds
\* while the queue already holds maxsize undelivered items.
FullQueueRefuses ==
    [][PutEnds =>
          /\ producer'.res # "ok" =>
                /\ producer'.res = "Full"
                /\ \A o \in Slots : slotState'[o] # BUILDING
                /\ signalPipe' = signalPipe
          /\ producer'.res = "ok" =>
                ~(queueSize > 0 /\ Cardinality(Undelivered) >= queueSize)
      ]_vars

(***************************************************************************)
(* Properties of the board of several producers.                           *)
(***************************************************************************)
\* interpreter i, holding the lock of a READY slot, looks at its owner
MeetsOwner(i, o) == obProc[i].pc = "owner" /\ obProc[i].index = o

ProducerHolds(o) ==
    producer.pc \in {"build", "fill", "ready", "unlock"} /\ producer.offset = o

\* consumer c has won the CAS on the lock byte of slot o and not yet released it
ConsumerHolds(c, o) ==
    consumer[c].pc \in {"own", "unlock"} /\ consumer[c].index = o

\* the parties that hold the lock byte of slot o
SlotHolders(o) ==
    {c \in Consumers : ConsumerHolds(c, o)}
        \cup (IF ProducerHolds(o) THEN {0} ELSE {})

\* C29: at most one interpreter holds the lock byte of a slot at any instant,
\* and a consumer changes the state of a slot only while it holds the lock of
\* that slot.
SlotLockExclusion ==
    /\ [](\A o \in Slots : Cardinality(SlotHolders(o)) <= 1)
    /\ [][\A c \in Consumers : \A o \in Slots :
             consumer'[c] # consumer[c] /\ slotState'[o] # slotState[o] =>
                 ConsumerHolds(c, o)]_vars

\* the steps of the cycle NOT_INIT -> BUILDING -> READY -> LOCKED -> GARBAGE
\* -> NOT_INIT
SlotCycle ==
    {<<NOT_INITIALIZED, BUILDING>>, <<BUILDING, READY>>, <<READY, LOCKED>>,
     <<LOCKED, GARBAGE>>, <<GARBAGE, NOT_INITIALIZED>>}

\* C30: whatever new_item, fetch_item, collect and del board[i] do, the state
\* of a slot changes only along the cycle NOT_INIT -> BUILDING -> READY ->
\* LOCKED -> GARBAGE -> NOT_INIT; a consumer makes no other change than
\* READY -> LOCKED and LOCKED -> GARBAGE; the free-slot search claims only a
\* slot that is NOT_INIT with lock 0; and only the origin returns a slot to
\* NOT_INIT.
SlotStateMachine ==
    [][\A o \in Slots :
          /\ slotState'[o] # slotState[o] =>
                /\ <<slotState[o], slotState'[o]>> \in SlotCycle
                /\ producer' = producer =>
                      <<slotState[o], slotState'[o]>> \in
                          {<<READY, LOCKED>>, <<LOCKED, GARBAGE>>}
                /\ slotState'[o] = NOT_INITIALIZED => producer' # producer
          /\ producer.pc = "cas" /\ producer'.pc = "build"
             /\ producer.offset = o =>
                slotState[o] = NOT_INITIALIZED /\ slotLock[o] = 0
      ]_vars

(***************************************************************************)
(* Properties of the worker.                                               *)
(***************************************************************************)
\* a call of close has just returned because the child was executing
CloseAborted ==
    /\ worker'.closes = worker.closes + 1
    /\ caller'.op = "close" /\ caller'.res = "aborted"

\* C25: a close made while the child interpreter is executing returns
\* without destroying the interpreter and changes nothing: the handle, the
\* shared buffer with its map, and the registration in list_all() are what
\* they were before the call.
AbortedCloseNoEffect ==
    [][CloseAborted =>
          /\ worker'.intno = worker.intno /\ worker.intno # 0
          /\ worker'.channel = worker.channel
          /\ running_interpreters' = running_interpreters
          /\ interpreterList' = interpreterList
          /\ worker.intno \in interpreterList'
      ]_vars

\* what list_all() and the runtime's list hold when the handle is h
ListedFor(h) == IF h # 0 THEN {h} ELSE {}

\* a call of close on a started worker whose child is idle has just returned
IdleCloseReturns ==
    /\ worker'.closes = worker.closes + 1
    /\ worker.intno # 0 /\ ~IsRunning

\* the object has just been dropped
DropReturns == worker'.gone /\ ~worker.gone

\* a call of start on a started worker has just raised
SecondStartRaises ==
    /\ worker'.starts = worker.starts + 1
    /\ worker.intno # 0

\* C26: the worker is listed by list_all(), and its handle is in the
\* runtime's list of interpreters, exactly while it is started and not yet
\* closed; a close of an idle worker, explicit or by the drop of the object,
\* destroys the interpreter, sets intno to None and removes the worker from
\* the list; a start on a started worker raises and changes nothing.
WorkerRegistration ==
    /\ [](/\ running_interpreters = ListedFor(worker.intno)
          /\ interpreterList = ListedFor(worker.intno))
    /\ [][/\ IdleCloseReturns \/ DropReturns =>
                /\ worker'.intno = 0
                /\ running_interpreters' = {}
                /\ interpreterList' = {}
          /\ SecondStartRaises =>
                /\ caller'.res = "RuntimeError"
                /\ worker' = [worker EXCEPT !.starts = @ + 1]
                /\ UNCHANGED <<running_interpreters, interpreterList,
                               retFlag, exec, wlog>>
      ]_vars

\* a worker that ran a call has been started a second time after its close,
\* and a second start of it was refused
WorkerRegistrationWitness ==
    /\ worker.starts = MaxStarts /\ worker.closes > 0 /\ worker.calls > 0
    /\ worker.intno # 0
    /\ caller.op = "start" /\ caller.res = "RuntimeError"

\* the call made last, and where it is
CurrentCall == worker.calls
CurrentUnderWay == exec.pc # "idle" /\ exec.call = CurrentCall
CurrentFailed ==
    /\ CurrentCall > 0 /\ ~CurrentUnderWay
    /\ wlog[CurrentCall].ran /\ ~wlog[CurrentCall].ok
CurrentSucceeded ==
    /\ CurrentCall > 0 /\ ~CurrentUnderWay
    /\ wlog[CurrentCall].ran /\ wlog[CurrentCall].ok

\* a call of result() has just returned or raised
ResultReturns ==
    /\ caller' # caller
    /\ caller'.pc = "idle" /\ caller'.op = "result"

\* C27: result() raises while the call made last is not done; when the code
\* of the child failed the failure is stored on the worker, done() is True
\* and result() raises; the next run or run_in_thread clears the stored
\* failure, and a result() that returns gives the value of the call made
\* last.
ResultProtocol ==
    /\ [](/\ CurrentFailed =>
                /\ worker.exception = CurrentCall
                /\ WorkerDone(worker, retFlag)
          /\ CurrentCall > 0 /\ wlog[CurrentCall].verdict = "accepted" =>
                worker.exception \in {0, CurrentCall})
    /\ [][/\ ResultReturns /\ CurrentCall > 0 =>
                /\ CurrentUnderWay => caller'.res # "ok"
                /\ CurrentFailed => caller'.res = "Failed"
                /\ caller'.res = "ok" /\ wlog[CurrentCall].verdict \in
                      {"pending", "accepted"} => caller'.val = CurrentCall
      ]_vars

\* execute has just raised for the size of the payload
PayloadRefused ==
    /\ exec.pc = "begin"
    /\ wlog'[exec.call].verdict = "rejected"

\* C28: a call fails for the size of its payload exactly when the pickles of
\* the function, the arguments and the keyword arguments are longer than the
\* send region: a payload as long as the region is accepted, one byte more
\* is rejected; a rejected call is not executed in the child and writes
\* nothing into the return region.
SendRegionBoundary ==
    /\ [](\A k \in CallIds :
             /\ wlog[k].verdict = "rejected" =>
                   /\ PayloadLen(wlog[k].arg) > SendSize
                   /\ ~wlog[k].ran
                   /\ ~wlog[k].wrote
             /\ wlog[k].verdict = "accepted" =>
                   PayloadLen(wlog[k].arg) <= SendSize)
    /\ [][PayloadRefused => retFlag' = retFlag]_vars

(***************************************************************************)
(* Properties of the payloads of the board.                                *)
(***************************************************************************)
\* the payload slot o points to is the one the origin keeps alive for it
PayloadAnchored(o) == blocks[o] # 0 /\ blocks[o] = contentAddress[o]

\* C31: while a slot is READY or LOCKED the payload it points to is anchored
\* in the origin's map, and a consumer that reads the address and the length
\* of a payload out of a slot reads those of an anchored payload, whatever
\* collect, del board[i], the reclamation inside the free-slot search and
\* the fetches do meanwhile.
PayloadLiveness ==
    /\ \A o \in Slots :
          slotState[o] \in {READY, LOCKED} => PayloadAnchored(o)
    /\ \A c \in Consumers :
          consumer[c].pc = "load" => PayloadAnchored(consumer[c].index)

(***************************************************************************)
(* Properties of the struct lock.                                          *)
(***************************************************************************)
\* no thread of view v is inside a call
ViewQuiet(v) == \A t \in Threads : viewOf[t] = v => th[t].stk = <<>>

\* the acquisitions made through view v and not released yet
RECURSIVE HeldBy(_, _)
HeldBy(v, ts) ==
    IF ts = {} THEN 0
    ELSE LET t == CHOOSE x \in ts : TRUE
         IN (IF viewOf[t] = v THEN th[t].held ELSE 0) + HeldBy(v, ts \ {t})

\* C32: acquisitions nested through one view are counted, the byte is 1 at
\* every depth >= 1 and 0 at depth 0, it changes from 0 to 1 only on an
\* outermost acquire and from 1 to 0 only on the outermost release, and no
\* other view acquires while the depth is >= 1.
StructLockReentrance ==
    /\ [](/\ \A v \in Views : entered[v] >= 1 => lockByte = 1
          /\ Cardinality({v \in Views : entered[v] >= 1}) <= 1
          /\ kind # "Lock" =>
                \A v \in Views :
                   ViewQuiet(v) => entered[v] = HeldBy(v, Threads)
          /\ (\A v \in Views : ViewQuiet(v) /\ entered[v] = 0) =>
                lockByte = 0)
    /\ [][lockByte' # lockByte => \A v \in Views : entered[v] = 0]_vars

\* two threads have acquired through one view, one inside the other: the
\* depth is 2 and the byte is 1
StructLockReentranceWitness ==
    /\ kind = "IntRLock"
    /\ lockByte = 1
    /\ \E t, u \in Threads :
          /\ t # u /\ viewOf[t] = viewOf[u]
          /\ th[t].stk = <<>> /\ th[u].stk = <<>>
          /\ th[t].held = 1 /\ th[u].held = 1
          /\ entered[viewOf[t]] = 2

(***************************************************************************)
(* Properties of the limbo registry.                                       *)
(***************************************************************************)
\* the time-to-live of the last pickling is over and every consumer that
\* entered the buffer has left it
Releasable == ~CheckTtl(pickles) /\ exitCount >= enterCount

\* a close of the origin, or of the entry in limbo by a sweep, ends
OriginCloseEnds == closing = "origin" /\ closing' = "none"
SweepEnds == closing = "zombie" /\ closing' = "none"

CollectStep == producer.pc \in {"collect", "sweep", "count"} /\ producer' # producer

\* collect returns or raises
CollectEnds == CollectStep /\ producer'.pc = "idle"

\* C34: collect on the origin turns every GARBAGE slot it meets into
\* NOT_INITIALIZED with its lock byte 0 and drops the payload the origin kept
\* for it, changes no slot that is in BUILDING, READY or LOCKED, and returns
\* the number of free slots: with no fetch under way when it returns, that is
\* the number of slots in NOT_INITIALIZED, so the board size once every
\* posted item has been fetched and collected.
CollectFrame ==
    [][/\ CollectStep /\ producer.pc = "sweep" =>
              /\ slotState'[producer.offset] = NOT_INITIALIZED
              /\ slotLock'[producer.offset] = 0
              /\ blocks'[producer.offset] = 0
       /\ CollectStep =>
              \A o \in Slots :
                  slotState[o] \in {BUILDING, READY, LOCKED} =>
                      /\ slotState'[o] = slotState[o]
                      /\ slotLock'[o] = slotLock[o]
                      /\ blocks'[o] = blocks[o]
                      /\ contentAddress'[o] = contentAddress[o]
       /\ CollectEnds =>
              /\ producer'.res = "ok"
              /\ (\A c \in Consumers : consumer[c].pc = "idle") =>
                     producer'.free =
                         Cardinality({o \in Slots : slotState'[o] = NOT_INITIALIZED})
      ]_vars


(***************************************************************************)
(* Properties of the queue over the board of several producers            *)
(***************************************************************************)
\* inside get of interpreter i, fetch_item has returned None while the
\* counter of slots whose owner is gone is positive, and _fetch goes on
Realigns(i) ==
    /\ oqCall[i].pc = "get" /\ obProc[i].pc = "idle"
    /\ obProc[i].res = "None" /\ obProc[i].gone > 0
    /\ oqCall'[i] # oqCall[i]

\* C35: when fetch_item returns None during get while the owner-gone counter
\* of the board is positive, get takes one off the counter, reads exactly
\* one signal byte and then fetches again within the same call.
OwnerGoneRealignment ==
    [][\A i \in Posters :
          Realigns(i) =>
              /\ obProc'[i].gone = obProc[i].gone - 1
              /\ oqPipe' = oqPipe - 1
              /\ oqCall'[i].pc = "get"
              /\ obProc'[i].pc = "scan"
      ]_vars


(***************************************************************************)
(* Properties of the selector                                              *)
(***************************************************************************)
\* the call of select is due to return: a callback of its target has been
\* entered, or without a target some callback has, or its timeout is over
SelectDue(fr) ==
    \/ fr.target # NoFd /\ fr.reached
    \/ fr.target = NoFd /\ fr.fired > 0
    \/ fr.timeout # NoTimeout /\ fr.ellapsed > fr.timeout

\* C36: select with a target returns once a callback of the target has
\* fired or the timeout is over, select without a target returns once any
\* callback has fired or the timeout is over, and a call that returns
\* leaves select_depth at the value it had before the call.
SelectorTermination ==
    [][frames # <<>> /\ TopFrame.pc = "while" /\ frames' # frames =>
          /\ SelectDue(TopFrame) => Len(frames') = Len(frames) - 1
          /\ Len(frames') < Len(frames) => select_depth' = TopFrame.before
      ]_vars


(***************************************************************************)
(* Properties of the signal pipe                                           *)
(***************************************************************************)
ReadySlots == {o \in Slots : slotState[o] = READY}

\* C37: whenever no put and no get is under way on the queue, the number of
\* unread bytes in its signal pipe is the number of READY slots on its
\* board.
SignalSlotAlignment == QueueQuiet => signalPipe = Cardinality(ReadySlots)


(***************************************************************************)
(* Properties of a repeated close                                          *)
(***************************************************************************)
\* interpreter i ends a close() of a pipe object that was closed before
ClosesAgain(i) ==
    /\ ip[i].pc = "closing" /\ ip'[i].pc = "idle"
    /\ pipes[ip[i].obj].stage = "closed"

\* C38: close() on a pipe object that is already closed does not take one
\* off the shared counter again and closes no file descriptor, so closing
\* twice in one interpreter never closes the descriptors under another
\* interpreter that holds the pipe open.
PipeCloseIdempotent ==
    [][\A i \in Interps :
          ClosesAgain(i) => counter' = counter /\ fdsOpen' = fdsOpen
      ]_vars


(***************************************************************************)
(* Properties of a second call on the worker                               *)
(***************************************************************************)
\* a call of done() has just returned
DoneReturns ==
    /\ caller' # caller
    /\ caller'.pc = "idle" /\ caller'.op = "done"

\* the call made last follows a call that ran in the child to its end, and
\* execute has not refused it
SecondCall ==
    /\ CurrentCall > 1 /\ wlog[CurrentCall - 1].ran
    /\ wlog[CurrentCall].verdict \in {"pending", "accepted"}

\* C39: on a worker that has completed an earlier call, once the next call
\* has been made done() is True only when that call is over, and result()
\* gives its outcome: never the value, the flag or the failure that the
\* earlier call left behind.
NoStaleResult ==
    [][SecondCall =>
          /\ DoneReturns /\ caller'.res = "true" => ~CurrentUnderWay
          /\ ResultReturns /\ caller'.res = "ok" => caller'.val = CurrentCall
          /\ ResultReturns /\ caller'.res = "Failed" => CurrentFailed
      ]_vars


(***************************************************************************)
(* Properties of locked()                                                  *)
(***************************************************************************)
\* thread u holds nothing and is in no call, or only evaluates locked()
OnlyPeeks(u) ==
    /\ th[u].held = 0
    /\ th[u].stk = <<>> \/ th[u].op = "locked"

\* thread t returns from locked() while the other threads hold nothing and
\* are in no call
PeekReturns(t) ==
    /\ th[t].op = "locked" /\ th[t].stk # <<>> /\ th'[t].stk = <<>>
    /\ \A u \in Threads \ {t} : th[u].held = 0 /\ th[u].stk = <<>>

\* the compare-and-swap of a non-blocking acquire of thread t fails
TryFails(t) ==
    /\ Top(t) = "CAS" /\ th[t].op = "acquire" /\ ~th[t].blocking
    /\ th'[t] # th[t]
    /\ lockByte # 0

\* C40: locked() only peeks: when it returns, the lock byte and the nesting
\* count of the caller are what the caller holds, as before the call; and
\* while nobody holds the lock, the try of a non-blocking acquire does not
\* fail because some other thread is evaluating locked().
LockedIsPeek ==
    [][\A t \in Threads :
          /\ PeekReturns(t) =>
                /\ lockByte' = IF th[t].held > 0 THEN 1 ELSE 0
                /\ entered'[viewOf[t]] = th[t].held
          /\ TryFails(t) => \E u \in Threads \ {t} : ~OnlyPeeks(u)
      ]_vars

====
